---- MODULE Spec2Model ----
(* Regex-builder: the match engine of the TestArea component (debounced     *)
(* match run, global match loop, validation branch) driven by the pattern,  *)
(* flags and sample text that App owns, and the RegexEditor component (edit *)
(* history, remembered caret, token insertion) that edits the pattern, and  *)
(* the PatternLibrary component (user patterns kept in localStorage).       *)
EXTENDS Integers, Sequences, FiniteSets, TLC

VARIABLES
    pattern,        \* App: useState("") pattern
    flags,          \* App: useState<RegexFlags>
    sampleText,     \* App: useState("") sample text, a sequence of characters
    matches,        \* TestArea: useState<PatternMatch[]>([])
    executionTime,  \* TestArea: useState<number>(0)
    isValid,        \* TestArea: useState(true)
    timers,         \* host timer queue: pending setTimeout callbacks, in order
    timeoutId,      \* id held by the cleanup closure of the last effect, 0 = no cleanup
    hung,           \* the UI thread is stuck inside a callback that never returns
    runs,           \* history: match runs executed since the last input change
    burst,          \* history: consecutive pattern changes that scheduled a run, none fired in between
    fresh,          \* history: the last write of matches was made for the current triple
    staleWrite,     \* history: some run wrote a result computed from a triple that was not current
    validBefore,    \* history: isValid just before the current triple was entered, superseded triples left out
    threw,          \* history: the run of the current triple ended in the catch block
    cancelled,      \* history: the last input change cleared a timer that was still pending
    rendered,       \* history: the spans returned by the render step of SpecRender
    history,            \* RegexEditor: useState<string[]>([pattern])
    historyIndex,       \* RegexEditor: useState(0), an index into history counted from 0
    cursorPositionRef,  \* RegexEditor: useRef<{start, end} | null>(null)
    selection,          \* DOM: selectionStart / selectionEnd of the pattern textarea
    focused,            \* DOM: the pattern textarea is the active element
    rafQueue,           \* host: pending requestAnimationFrame callbacks, each with its newCursorPos
    expectCaret,        \* history: caret right after the last inserted token, -1 once the user edits elsewhere
    dropped,            \* history: entries cut off by the last handlePatternChange
    userPatterns,       \* PatternLibrary: useState<RegexPattern[]>([])
    stored,             \* localStorage: the value under STORAGE_KEY
    isDialogOpen,       \* PatternLibrary: useState(false)
    editingPattern,     \* PatternLibrary: useState<RegexPattern | null>(null)
    formData,           \* PatternLibrary: useState({name, pattern, description, category})
    now,                \* host clock: the value Date.now() returns
    mount,              \* PatternLibrary: how far startup has got, "ready" once it is over
    queued,             \* React: the value the load effect gave to setUserPatterns, not rendered yet
    reading,            \* FileReader: the text of the file whose load event is still to come
    alerted,            \* host: the last load event of a FileReader ended in alert()
    searchQuery,        \* PatternLibrary: useState("") search query
    link,               \* history: the data {pattern, flags} of the link that handleShare made last
    clipboard,          \* navigator.clipboard: the query value of the address that handleShare wrote
    unmounted           \* React: TestArea was unmounted, its last cleanup has run

engineVars == <<pattern, flags, sampleText, matches, executionTime, isValid, timers,
                timeoutId, hung, runs, burst, fresh, staleWrite, validBefore, threw,
                cancelled, rendered>>

editorVars == <<history, historyIndex, cursorPositionRef, selection, focused, rafQueue,
                expectCaret, dropped>>

storeVars == <<mount, queued, reading, alerted, searchQuery>>

libraryVars == <<userPatterns, stored, isDialogOpen, editingPattern, formData, now,
                 storeVars>>

shareVars == <<link, clipboard>>

lifeVars == <<unmounted>>

vars == <<engineVars, editorVars, libraryVars, shareVars, lifeVars>>

-----------------------------------------------------------------------------
(* Bounds *)

MaxTextLen == 3
MaxBurst == 3
MaxRuns == 2
MaxMatches == 4

Alphabet == {"a", "b"}

RECURSIVE SeqsUpTo(_)
SeqsUpTo(n) ==
    IF n = 0 THEN {<<>>}
    ELSE LET shorter == SeqsUpTo(n - 1)
         IN  shorter \cup {Append(s, c) : s \in {x \in shorter : Len(x) = n - 1}, c \in Alphabet}

\* what the user types into the textarea: nothing, or a text that opens with
\* the letter the patterns look for
SampleTexts ==
    {t \in SeqsUpTo(MaxTextLen) : t = <<>> \/ t[1] = "a"} \cup {<<"a", "b", "c">>}

Patterns == {"", "(", "a{", "x*", "a*", "(a+)+b"}

\* the flag checkboxes the model clicks
ToggledFlags == {"global", "unicode"}

\* endTime - startTime of performance.now(): zero or positive
ElapsedTimes == {0, 1}

LoopFuel == 2 * MaxTextLen + 4

Min(a, b) == IF a < b THEN a ELSE b

-----------------------------------------------------------------------------
(* Flag codec *)

DefaultFlags ==
    [global |-> TRUE, ignoreCase |-> FALSE, multiline |-> FALSE,
     dotAll |-> FALSE, unicode |-> FALSE, sticky |-> FALSE]

flagsToString(fl) ==
    (IF fl.global THEN <<"g">> ELSE <<>>) \o
    (IF fl.ignoreCase THEN <<"i">> ELSE <<>>) \o
    (IF fl.multiline THEN <<"m">> ELSE <<>>) \o
    (IF fl.dotAll THEN <<"s">> ELSE <<>>) \o
    (IF fl.unicode THEN <<"u">> ELSE <<>>) \o
    (IF fl.sticky THEN <<"y">> ELSE <<>>)

includes(s, c) == \E i \in 1..Len(s) : s[i] = c

\* the code "y" is not looked for
parseFlagsWithoutSticky(flagsString) ==
    [global |-> includes(flagsString, "g"),
     ignoreCase |-> includes(flagsString, "i"),
     multiline |-> includes(flagsString, "m"),
     dotAll |-> includes(flagsString, "s"),
     unicode |-> includes(flagsString, "u"),
     sticky |-> FALSE]

parseFlags(flagsString) ==
    [global |-> includes(flagsString, "g"),
     ignoreCase |-> includes(flagsString, "i"),
     multiline |-> includes(flagsString, "m"),
     dotAll |-> includes(flagsString, "s"),
     unicode |-> includes(flagsString, "u"),
     sticky |-> includes(flagsString, "y")]

\* const data = {pattern, flags: flagsStr} of handleShare
ShareData(p, flagsStr) == [pattern |-> p, flags |-> flagsStr]

\* nothing was shared
NoLink == ShareData("", <<"none">>)

-----------------------------------------------------------------------------
(* The share link: JSON.stringify and btoa in handleShare, the query string *)
(* of the address, and atob and JSON.parse in the load effect of App.       *)
(* Texts are sequences of characters; what atob returns is a sequence of    *)
(* char codes. The model's patterns are written with the characters of      *)
(* codes 32 to 126, so the branch of btoa that throws for a code above 255  *)
(* is never entered.                                                        *)

\* a string as the sequence of its characters
Chars(str) == [i \in 1..Len(str) |-> SubSeq(str, i, i)]

\* the characters with the char codes 32 to 126, in the order of their
\* codes; the grave accent (code 96) cannot be written in a string here, its
\* place is held by a text that no character is equal to
AsciiChars ==
    Chars(" !\"#$%&'()*+,-./0123456789:;<=>?@ABCDEFGHIJKLMNOPQRSTUVWXYZ[\\]^_")
    \o <<"grave accent">>
    \o Chars("abcdefghijklmnopqrstuvwxyz{|}~")

charCodeAt(c) == 31 + (CHOOSE i \in 1..Len(AsciiChars) : AsciiChars[i] = c)

fromCharCode(n) == AsciiChars[n - 31]

\* the characters put together as one string
RECURSIVE Join(_)
Join(chars) == IF chars = <<>> THEN "" ELSE Head(chars) \o Join(Tail(chars))

\* JSON.stringify of a string: quoted, with \ and " escaped
RECURSIVE Escaped(_)
Escaped(chars) ==
    IF chars = <<>> THEN <<>>
    ELSE (IF Head(chars) \in {"\"", "\\"} THEN <<"\\", Head(chars)>> ELSE <<Head(chars)>>)
         \o Escaped(Tail(chars))

Quoted(chars) == <<"\"">> \o Escaped(chars) \o <<"\"">>

\* JSON.stringify(data) for data = {pattern, flags}
JSONstringifyData(data) ==
    Chars("{") \o Quoted(Chars("pattern")) \o Chars(":") \o Quoted(Chars(data.pattern))
    \o Chars(",") \o Quoted(Chars("flags")) \o Chars(":") \o Quoted(data.flags)
    \o Chars("}")

\* the 64 digits of base64, in the order of their values
Base64Digits ==
    Chars("ABCDEFGHIJKLMNOPQRSTUVWXYZabcdefghijklmnopqrstuvwxyz0123456789+/")

\* three bytes become four digits; a last group of one or two bytes is padded with "="
RECURSIVE btoaFrom(_, _)
btoaFrom(codes, i) ==
    IF i > Len(codes) THEN <<>>
    ELSE LET b1 == codes[i]
             b2 == IF i + 1 <= Len(codes) THEN codes[i + 1] ELSE 0
             b3 == IF i + 2 <= Len(codes) THEN codes[i + 2] ELSE 0
             n == b1 * 65536 + b2 * 256 + b3
         IN  <<Base64Digits[(n \div 262144) + 1], Base64Digits[((n \div 4096) % 64) + 1]>>
             \o (IF i + 1 <= Len(codes) THEN <<Base64Digits[((n \div 64) % 64) + 1]>>
                 ELSE <<"=">>)
             \o (IF i + 2 <= Len(codes) THEN <<Base64Digits[(n % 64) + 1]>> ELSE <<"=">>)
             \o btoaFrom(codes, i + 3)

btoa(chars) == btoaFrom([i \in 1..Len(chars) |-> charCodeAt(chars[i])], 1)

\* URLSearchParams.get: in a query string a "+" stands for a space
urlParamsGet(query) ==
    [i \in 1..Len(query) |-> IF query[i] = "+" THEN " " ELSE query[i]]

\* what a decoding step returns: its value, or the mark that it threw
Decoded(value) == [threw |-> FALSE, value |-> value]

Thrown == [threw |-> TRUE, value |-> <<>>]

DigitValue(c) == (CHOOSE i \in 1..Len(Base64Digits) : Base64Digits[i] = c) - 1

\* four digits become three bytes; a last group of two or three digits gives one or two
RECURSIVE atobFrom(_, _)
atobFrom(ds, i) ==
    IF i > Len(ds) THEN <<>>
    ELSE LET have == Min(4, Len(ds) - i + 1)
             v2 == IF have >= 3 THEN DigitValue(ds[i + 2]) ELSE 0
             v3 == IF have >= 4 THEN DigitValue(ds[i + 3]) ELSE 0
             n == DigitValue(ds[i]) * 262144 + DigitValue(ds[i + 1]) * 4096 + v2 * 64 + v3
         IN  <<n \div 65536>>
             \o (IF have >= 3 THEN <<(n \div 256) % 256>> ELSE <<>>)
             \o (IF have >= 4 THEN <<n % 256>> ELSE <<>>)
             \o atobFrom(ds, i + 4)

\* atob: white space is removed, then padding when the length is a multiple
\* of 4; a length of 4k + 1 or a character that is no digit throws
atob(data) ==
    LET stripped == SelectSeq(data, LAMBDA c : c # " ")
        n == Len(stripped)
        unpadded ==
            IF n > 0 /\ n % 4 = 0 /\ stripped[n] = "="
            THEN (IF stripped[n - 1] = "=" THEN SubSeq(stripped, 1, n - 2)
                  ELSE SubSeq(stripped, 1, n - 1))
            ELSE stripped
    IN  IF \/ Len(unpadded) % 4 = 1
           \/ \E i \in 1..Len(unpadded) : ~includes(Base64Digits, unpadded[i])
        THEN Thrown
        ELSE Decoded(atobFrom(unpadded, 1))

\* what parsing a part of a JSON text returns: ok, the value, the next position
Parsed(ok, value, next) == [ok |-> ok, value |-> value, next |-> next]

\* a JSON string from the opening quote at position i: the characters up to
\* the closing quote, with the escapes \\ and \" undone; a control character
\* or another escape does not parse
RECURSIVE ParseChars(_, _, _)
ParseChars(t, i, value) ==
    IF i > Len(t) \/ t[i] < 32 THEN Parsed(FALSE, "", i)
    ELSE IF t[i] = charCodeAt("\"") THEN Parsed(TRUE, Join(value), i + 1)
    ELSE IF t[i] = charCodeAt("\\") THEN
        (IF i + 1 <= Len(t) /\ t[i + 1] \in {charCodeAt("\""), charCodeAt("\\")}
         THEN ParseChars(t, i + 2, Append(value, fromCharCode(t[i + 1])))
         ELSE Parsed(FALSE, "", i))
    ELSE ParseChars(t, i + 1, Append(value, fromCharCode(t[i])))

ParseString(t, i) ==
    IF i <= Len(t) /\ t[i] = charCodeAt("\"") THEN ParseChars(t, i + 1, <<>>)
    ELSE Parsed(FALSE, "", i)

\* the members "key":"value" of an object from position i, up to the closing brace
RECURSIVE ParseMembers(_, _, _)
ParseMembers(t, i, members) ==
    LET key == ParseString(t, i)
        val == IF key.ok /\ key.next <= Len(t) /\ t[key.next] = charCodeAt(":")
               THEN ParseString(t, key.next + 1)
               ELSE Parsed(FALSE, "", i)
        all == Append(members, [key |-> key.value, value |-> val.value])
    IN  IF ~val.ok \/ val.next > Len(t) THEN Parsed(FALSE, <<>>, i)
        ELSE IF t[val.next] = charCodeAt("}") THEN Parsed(TRUE, all, val.next + 1)
        ELSE IF t[val.next] = charCodeAt(",") THEN ParseMembers(t, val.next + 1, all)
        ELSE Parsed(FALSE, <<>>, i)

\* JSON.parse of a text that is an object with string members, written
\* without white space as JSON.stringify writes it; any other text throws
JSONparseData(t) ==
    IF Len(t) < 2 \/ t[1] # charCodeAt("{") THEN Thrown
    ELSE IF t[2] = charCodeAt("}") THEN
        (IF Len(t) = 2 THEN Decoded(<<>>) ELSE Thrown)
    ELSE LET r == ParseMembers(t, 2, <<>>) IN
         IF r.ok /\ r.next = Len(t) + 1 THEN Decoded(r.value) ELSE Thrown

\* data[key] of a parsed object; a missing member reads as the empty string,
\* which the load effect treats like undefined
Member(members, key) ==
    LET at == {i \in 1..Len(members) : members[i].key = key} IN
    IF at = {} THEN ""
    ELSE members[CHOOSE i \in at : \A j \in at : j <= i].value

\* the address that handleShare writes to the clipboard, reduced to the
\* value of its query parameter "pattern"
shareUrl(p, flagsStr) == btoa(JSONstringifyData(ShareData(p, flagsStr)))

\* nothing was copied
NoUrl == <<>>

-----------------------------------------------------------------------------
(* The host's matching primitive: new RegExp(pattern, flagsStr) and         *)
(* regex.exec(text), for the patterns of Patterns.                          *)

\* new RegExp throws a SyntaxError: "(" never compiles, "a{" not under u
Compiles(p, flagsStr) ==
    /\ p # "("
    /\ ~(p = "a{" /\ includes(flagsStr, "u"))

RegExp(p, flagsStr) ==
    [source |-> p, global |-> includes(flagsStr, "g"),
     sticky |-> includes(flagsStr, "y"), lastIndex |-> 0]

\* number of consecutive c in text from 0-based position i on
RECURSIVE RunLen(_, _, _)
RunLen(text, i, c) ==
    IF i < Len(text) /\ text[i + 1] = c THEN 1 + RunLen(text, i + 1, c) ELSE 0

Digits == {"0", "1", "2", "3", "4", "5", "6", "7", "8", "9"}

\* number of consecutive digits in text from 0-based position i on
RECURSIVE DigitRunLen(_, _)
DigitRunLen(text, i) ==
    IF i < Len(text) /\ text[i + 1] \in Digits THEN 1 + DigitRunLen(text, i + 1) ELSE 0

\* length of the match of p that starts at 0-based position i, -1 when none
MatchLenAt(p, text, i) ==
    CASE p = "x*" -> RunLen(text, i, "x")
      [] p = "a*" -> RunLen(text, i, "a")
      [] p = "(a+)+b" ->
            LET r == RunLen(text, i, "a")
            IN  IF r > 0 /\ i + r < Len(text) /\ text[i + r + 1] = "b" THEN r + 1 ELSE -1
      [] p = "\\d+" ->
            LET r == DigitRunLen(text, i)
            IN  IF r > 0 THEN r ELSE -1
      [] p = "a{" ->
            IF i + 1 < Len(text) /\ text[i + 1] = "a" /\ text[i + 2] = "{" THEN 2 ELSE -1
      [] OTHER -> -1

\* the nested quantifier gives up with an exception on a run of a that no b follows
ThrowsAt(p, text, i) ==
    /\ p = "(a+)+b"
    /\ LET r == RunLen(text, i, "a")
       IN  r > 0 /\ ~(i + r < Len(text) /\ text[i + r + 1] = "b")

\* match.slice(1): the capture groups of the match at i of length len
Groups(p, text, i, len) ==
    IF p = "(a+)+b" THEN <<SubSeq(text, i + 1, i + len - 1)>> ELSE <<>>

RECURSIVE Search(_, _, _)
Search(re, text, i) ==
    IF i > Len(text) THEN [kind |-> "null", index |-> 0, len |-> 0]
    ELSE IF ThrowsAt(re.source, text, i) THEN [kind |-> "throw", index |-> i, len |-> 0]
    ELSE IF MatchLenAt(re.source, text, i) >= 0
         THEN [kind |-> "match", index |-> i, len |-> MatchLenAt(re.source, text, i)]
    ELSE IF re.sticky THEN [kind |-> "null", index |-> 0, len |-> 0]
    ELSE Search(re, text, i + 1)

\* regex.exec(text): the result and the regex's lastIndex afterwards
exec(re, text) ==
    LET useLast == re.global \/ re.sticky
        r == Search(re, text, IF useLast THEN re.lastIndex ELSE 0)
    IN  [kind |-> r.kind, index |-> r.index, len |-> r.len,
         lastIndex |-> IF ~useLast \/ r.kind = "throw" THEN re.lastIndex
                       ELSE IF r.kind = "match" THEN r.index + r.len
                       ELSE 0]

-----------------------------------------------------------------------------
(* regex-utils: validateRegex *)

Null == "null"

validateRegex(p, fl) ==
    IF p = "" THEN Null
    ELSE IF Compiles(p, flagsToString(fl)) THEN Null
    ELSE "SyntaxError"

-----------------------------------------------------------------------------
(* TestArea: the deferred run *)

\* a plausible slip: endIndex taken one past the end of the match
PatternMatchOffByOne(re, m, text) ==
    [text |-> SubSeq(text, m.index + 1, m.index + m.len),
     startIndex |-> m.index,
     endIndex |-> m.index + m.len + 1,
     groups |-> Groups(re.source, text, m.index, m.len)]

PatternMatch(re, m, text) ==
    [text |-> SubSeq(text, m.index + 1, m.index + m.len),
     startIndex |-> m.index,
     endIndex |-> m.index + m.len,
     groups |-> Groups(re.source, text, m.index, m.len)]

\* a plausible slip: the guard against zero-length matches left out
NoZeroLengthGuard(len, lastIndex) == lastIndex

\* if (match[0].length === 0) regex.lastIndex++
ZeroLengthGuard(len, lastIndex) ==
    IF len = 0 THEN lastIndex + 1 ELSE lastIndex

RECURSIVE GlobalLoop(_, _, _, _)
GlobalLoop(re, text, allMatches, fuel) ==
    IF fuel = 0 THEN [outcome |-> "hung", allMatches |-> allMatches]
    ELSE LET m == exec(re, text)
         IN  IF m.kind = "throw" THEN [outcome |-> "threw", allMatches |-> allMatches]
             ELSE IF m.kind = "null" THEN [outcome |-> "ok", allMatches |-> allMatches]
             ELSE GlobalLoop(
                    [re EXCEPT !.lastIndex = ZeroLengthGuard(m.len, m.lastIndex)],
                    text,
                    Append(allMatches, PatternMatch(re, m, text)),
                    fuel - 1)

\* a plausible slip: the non-global branch collects every match
SingleMatchCollectsAll(re, text) ==
    GlobalLoop([re EXCEPT !.global = TRUE], text, <<>>, LoopFuel)

SingleMatch(re, text) ==
    LET m == exec(re, text)
    IN  IF m.kind = "throw" THEN [outcome |-> "threw", allMatches |-> <<>>]
        ELSE IF m.kind = "null" THEN [outcome |-> "ok", allMatches |-> <<>>]
        ELSE [outcome |-> "ok",
              allMatches |-> <<PatternMatch(re, m, text)>>]

\* the body of the try block of the deferred run
RunBody(p, fl, text) ==
    LET flagsStr == flagsToString(fl)
    IN  IF ~Compiles(p, flagsStr) THEN [outcome |-> "threw", allMatches |-> <<>>]
        ELSE IF fl.global THEN GlobalLoop(RegExp(p, flagsStr), text, <<>>, LoopFuel)
        ELSE SingleMatch(RegExp(p, flagsStr), text)

\* a plausible slip: the matches collected before the exception are shown
CatchKeepsPartial(allMatches) == allMatches

\* catch (error) { setIsValid(false); setMatches([]) }
CatchMatches(allMatches) == <<>>

-----------------------------------------------------------------------------
(* TestArea: renderHighlightedText, a memo of (sampleText, matches) *)

Clamp(i, n) == IF i < 0 THEN 0 ELSE IF i > n THEN n ELSE i

\* String.prototype.substring(a, b) on a sequence of characters
substring(s, a, b) ==
    LET lo == Clamp(Min(a, b), Len(s))
        hi == Clamp(IF a < b THEN b ELSE a, Len(s))
    IN  SubSeq(s, lo + 1, hi)

\* a plausible slip: the text between two matches is left out
GapSpanDropped(text, lastIndex, startIndex) == <<>>

\* if (match.startIndex > lastIndex) push the text before the match
GapSpan(text, lastIndex, startIndex) ==
    IF startIndex > lastIndex
    THEN <<[tag |-> "plain", text |-> substring(text, lastIndex, startIndex)]>>
    ELSE <<>>

\* the highlighted span of a match, pushed for every match
MatchSpan(m) == <<[tag |-> "match", text |-> m.text]>>

\* if (lastIndex < sampleText.length) push the remaining text
TrailingSpan(text, lastIndex) ==
    IF lastIndex < Len(text)
    THEN <<[tag |-> "plain", text |-> substring(text, lastIndex, Len(text))]>>
    ELSE <<>>

RECURSIVE RenderFrom(_, _, _, _, _)
RenderFrom(text, ms, i, lastIndex, elements) ==
    IF i > Len(ms) THEN elements \o TrailingSpan(text, lastIndex)
    ELSE RenderFrom(text, ms, i + 1, ms[i].endIndex,
                    elements \o GapSpan(text, lastIndex, ms[i].startIndex)
                             \o MatchSpan(ms[i]))

renderHighlightedText(text, ms) ==
    IF text = <<>> \/ ms = <<>> THEN <<[tag |-> "plain", text |-> text]>>
    ELSE RenderFrom(text, ms, 1, 0, <<>>)

\* the memo is a function of (sampleText, matches): what the card shows
spans == renderHighlightedText(sampleText, matches)

\* no render step has been observed
Unrendered == <<[tag |-> "unrendered", text |-> <<>>]>>

-----------------------------------------------------------------------------
(* TestArea: the matching effect.  An input change, the re-render it causes, *)
(* the cleanup of the previous effect and the new effect run are one step:   *)
(* React flushes them within the event that changed the state, and no timer *)
(* callback can run in between on the single UI thread.                     *)

Triple(p, fl, t) == [pattern |-> p, flags |-> fl, sampleText |-> t]

Cur == Triple(pattern, flags, sampleText)

\* a plausible slip: the effect returns no cleanup, the old timer stays alive
CleanupLeak(ts, id) == ts

\* return () => clearTimeout(timeoutId)
Cleanup(ts, id) == SelectSeq(ts, LAMBDA t : t.id # id)

\* setTimeout returns an id that no pending timer has
FreshId(ts) ==
    CHOOSE n \in 1..(Len(ts) + 1) : \A i \in 1..Len(ts) : ts[i].id # n

\* the short-circuit branch leaves isValid as it is
ShortCircuitValid(v) == v

\* a plausible slip: the validation branch forgets setMatches([])
InvalidKeepsMatches(ms) == ms

\* the validation branch: setIsValid(false); setMatches([])
InvalidMatches(ms) == <<>>

Schedules(p, fl, t) ==
    p # "" /\ t # <<>> /\ validateRegex(p, fl) = Null

\* cleanup of the previous effect, then the effect for the new props
Effect(p, fl, t) ==
    LET kept == Cleanup(timers, timeoutId) IN
    IF p = "" \/ t = <<>> THEN
        /\ matches' = <<>>
        /\ executionTime' = 0
        /\ isValid' = ShortCircuitValid(isValid)
        /\ timers' = kept
        /\ timeoutId' = 0
    ELSE IF validateRegex(p, fl) # Null THEN
        /\ isValid' = FALSE
        /\ matches' = InvalidMatches(matches)
        /\ executionTime' = executionTime
        /\ timers' = kept
        /\ timeoutId' = 0
    ELSE
        /\ isValid' = TRUE
        /\ matches' = matches
        /\ executionTime' = executionTime
        /\ timers' = Append(kept, [id |-> FreshId(kept), pattern |-> p,
                                    flags |-> fl, sampleText |-> t])
        /\ timeoutId' = FreshId(kept)

\* history variables on an input change to the triple (p, fl, t)
Record(p, fl, t, isPatternChange) ==
    /\ runs' = 0
    /\ burst' = IF isPatternChange /\ Schedules(p, fl, t)
                THEN (IF runs = 0 /\ timers # <<>> THEN Min(burst + 1, MaxBurst) ELSE 1)
                ELSE 0
    /\ fresh' = ~Schedules(p, fl, t)
    /\ validBefore' = IF timers # <<>> THEN validBefore ELSE isValid
    /\ threw' = FALSE
    /\ cancelled' = (Len(Cleanup(timers, timeoutId)) < Len(timers))
    /\ UNCHANGED <<staleWrite, hung>>

-----------------------------------------------------------------------------
(* RegexEditor after its first render *)

Range(s, e) == [start |-> s, end |-> e]

\* cursorPositionRef.current = null
NullRange == Range(-1, -1)

\* App mounts with pattern "", so the editor's history starts as [""]
EditorMounted ==
    /\ history = <<"">>
    /\ historyIndex = 0
    /\ cursorPositionRef = NullRange
    /\ selection = Range(0, 0)
    /\ focused = FALSE
    /\ rafQueue = <<>>
    /\ expectCaret = -1
    /\ dropped = 0

-----------------------------------------------------------------------------
(* PatternLibrary: entries, storage and the state after startup *)

Entry(id, name, p, description, category) ==
    [id |-> id, name |-> name, pattern |-> p, description |-> description,
     category |-> category]

\* the form of the Add / Edit dialog
Form(name, p, description, category) ==
    [name |-> name, pattern |-> p, description |-> description, category |-> category]

EmptyForm == Form("", "", "", "")

\* editingPattern = null
NullEntry == Entry("", "", "", "", "")

\* String.prototype.startsWith
startsWith(s, prefix) ==
    Len(s) >= Len(prefix) /\ SubSeq(s, 1, Len(prefix)) = prefix

\* x || fallback on strings
OrElse(x, fallback) == IF x = "" THEN fallback ELSE x

\* the shipped patterns.json: entries whose ids do not start with "user-"
patternsData ==
    <<Entry("email", "Email", "\\w+@\\w+", "Matches an email address", "Validation")>>

\* a token of a JSON text; a whole object literal is one token that holds
\* the record it denotes
Tok(kind, item) == [kind |-> kind, item |-> item]

Punct(kind) == Tok(kind, NullEntry)

\* the items of an array, separated by commas
RECURSIVE Commas(_)
Commas(list) ==
    IF Len(list) = 0 THEN <<>>
    ELSE IF Len(list) = 1 THEN <<Tok("object", list[1])>>
    ELSE <<Tok("object", list[1]), Punct(",")>> \o Commas(Tail(list))

\* JSON.stringify of a list of records, as a sequence of tokens
JSONstringify(list) == <<Punct("[")>> \o Commas(list) \o <<Punct("]")>>

\* what JSON.parse hands back: an array with its items, a value that is no
\* array, or a SyntaxError
Value(kind, items) == [kind |-> kind, items |-> items]

SyntaxError == Value("SyntaxError", <<>>)

\* no value: setUserPatterns was not called
NotQueued == Value("none", <<>>)

\* Array.isArray
isArray(v) == v.kind = "array"

\* reads "item , item ... ]" from token i on
RECURSIVE ParseItems(_, _, _)
ParseItems(text, i, items) ==
    IF i + 1 > Len(text) \/ text[i].kind # "object" THEN SyntaxError
    ELSE IF text[i + 1].kind = "]"
         THEN IF i + 1 = Len(text) THEN Value("array", Append(items, text[i].item))
              ELSE SyntaxError
    ELSE IF text[i + 1].kind = ","
         THEN ParseItems(text, i + 2, Append(items, text[i].item))
    ELSE SyntaxError

\* JSON.parse of a sequence of tokens
JSONparse(text) ==
    IF Len(text) = 0 THEN SyntaxError
    ELSE IF text[1].kind = "object"
         THEN IF Len(text) = 1 THEN Value("object", <<>>) ELSE SyntaxError
    ELSE IF text[1].kind = "["
         THEN IF Len(text) = 2 /\ text[2].kind = "]" THEN Value("array", <<>>)
              ELSE ParseItems(text, 2, <<>>)
    ELSE SyntaxError

\* localStorage.getItem returns null: falsy like the empty string
NoValue == <<>>

\* the component is on screen: its handlers are there to be called
Mounted == mount = "ready"

\* no file is being read, no search, startup is over
StoreIdle ==
    /\ mount = "ready"
    /\ queued = NotQueued
    /\ reading = <<>>
    /\ alerted = FALSE
    /\ searchQuery = ""

\* the state once the load and save effects have run on a stored list
LibraryLoaded(list) ==
    /\ userPatterns = list
    /\ stored = JSONstringify(list)
    /\ isDialogOpen = FALSE
    /\ editingPattern = NullEntry
    /\ formData = EmptyForm
    /\ now = 1
    /\ StoreIdle

-----------------------------------------------------------------------------
(* Actions *)

SetPattern(p) ==
    /\ ~hung
    /\ p # pattern
    /\ pattern' = p
    /\ UNCHANGED <<flags, sampleText>>
    /\ Effect(p, flags, sampleText)
    /\ Record(p, flags, sampleText, TRUE)
    /\ UNCHANGED rendered
    /\ UNCHANGED <<editorVars, libraryVars, shareVars, lifeVars>>

FlagChange(f) ==
    /\ ~hung
    /\ flags' = [flags EXCEPT ![f] = ~flags[f]]
    /\ UNCHANGED <<pattern, sampleText>>
    /\ Effect(pattern, flags', sampleText)
    /\ Record(pattern, flags', sampleText, FALSE)
    /\ UNCHANGED rendered
    /\ UNCHANGED <<editorVars, libraryVars, shareVars, lifeVars>>

SetSampleText(t) ==
    /\ ~hung
    /\ t # sampleText
    /\ sampleText' = t
    /\ UNCHANGED <<pattern, flags>>
    /\ Effect(pattern, flags, t)
    /\ Record(pattern, flags, t, FALSE)
    /\ UNCHANGED rendered
    /\ UNCHANGED <<editorVars, libraryVars, shareVars, lifeVars>>

\* the setTimeout callback of the oldest pending timer runs
TimerFires ==
    /\ ~hung
    /\ timers # <<>>
    /\ LET t == Head(timers)
           r == RunBody(t.pattern, t.flags, t.sampleText)
           isCur == Triple(t.pattern, t.flags, t.sampleText) = Cur
       IN  /\ timers' = Tail(timers)
           /\ runs' = Min(runs + 1, MaxRuns)
           /\ UNCHANGED <<pattern, flags, sampleText, timeoutId, burst, validBefore, cancelled>>
           /\ IF r.outcome = "hung" THEN
                 /\ hung' = TRUE
                 /\ UNCHANGED <<matches, executionTime, isValid, fresh, staleWrite, threw>>
              ELSE IF r.outcome = "threw" THEN
                 /\ isValid' = FALSE
                 /\ matches' = CatchMatches(r.allMatches)
                 /\ fresh' = isCur
                 /\ staleWrite' = (staleWrite \/ ~isCur)
                 /\ threw' = isCur
                 /\ UNCHANGED <<executionTime, hung>>
              ELSE
                 /\ matches' = r.allMatches
                 /\ \E elapsed \in ElapsedTimes : executionTime' = elapsed
                 /\ fresh' = isCur
                 /\ staleWrite' = (staleWrite \/ ~isCur)
                 /\ UNCHANGED <<isValid, hung, threw>>
    /\ UNCHANGED rendered
    /\ UNCHANGED <<editorVars, libraryVars, shareVars, lifeVars>>

Init ==
    /\ pattern = ""
    /\ flags = DefaultFlags
    /\ sampleText = <<>>
    /\ matches = <<>>
    /\ executionTime = 0
    /\ isValid = TRUE
    /\ timers = <<>>
    /\ timeoutId = 0
    /\ hung = FALSE
    /\ runs = 0
    /\ burst = 0
    /\ fresh = TRUE
    /\ staleWrite = FALSE
    /\ validBefore = TRUE
    /\ threw = FALSE
    /\ cancelled = FALSE
    /\ rendered = Unrendered
    /\ link = NoLink
    /\ clipboard = NoUrl
    /\ unmounted = FALSE
    /\ EditorMounted
    /\ LibraryLoaded(<<>>)

Next ==
    \/ \E p \in Patterns : SetPattern(p)
    \/ \E f \in ToggledFlags : FlagChange(f)
    \/ \E t \in SampleTexts : SetSampleText(t)
    \/ TimerFires

Spec == Init /\ [][Next]_vars

-----------------------------------------------------------------------------
(* The pending timer over the life of TestArea, unmount included *)

RegisterPatterns == {"", "(", "a*", "x*"}

RegisterTexts == {<<>>, <<"a">>, <<"a", "b">>}

\* TestArea is unmounted: React runs the cleanup of its last effect, and
\* no effect and no state update of the component happens afterwards
Unmount ==
    /\ ~hung
    /\ ~unmounted
    /\ unmounted' = TRUE
    /\ timers' = Cleanup(timers, timeoutId)
    /\ timeoutId' = 0
    /\ cancelled' = (Len(Cleanup(timers, timeoutId)) < Len(timers))
    /\ UNCHANGED <<pattern, flags, sampleText, matches, executionTime, isValid, hung, runs,
                   burst, fresh, staleWrite, validBefore, threw, rendered>>
    /\ UNCHANGED <<editorVars, libraryVars, shareVars>>

NextRegister ==
    \/ /\ ~unmounted
       /\ \/ \E p \in RegisterPatterns : SetPattern(p)
          \/ \E f \in ToggledFlags : FlagChange(f)
          \/ \E t \in RegisterTexts : SetSampleText(t)
          \/ TimerFires
    \/ Unmount

SpecRegister == Init /\ [][NextRegister]_vars

-----------------------------------------------------------------------------
(* The deferred run under a fair timer: the host runs the callback of a     *)
(* pending setTimeout once its 300 ms have passed, so a timer that stays    *)
(* pending fires.                                                           *)

LiveTexts == {<<>>, <<"a">>, <<"a", "b", "a">>}

NextLive ==
    \/ \E p \in Patterns : SetPattern(p)
    \/ \E f \in ToggledFlags : FlagChange(f)
    \/ \E t \in LiveTexts : SetSampleText(t)
    \/ TimerFires

\* the host takes the oldest pending callback off its queue and runs it; of
\* the steps of NextLive exactly those of TimerFires do this
TimerDue ==
    /\ ~hung
    /\ timers # <<>>
    /\ timers' = Tail(timers)
    /\ UNCHANGED <<pattern, flags, sampleText>>

SpecLive == Init /\ [][NextLive]_vars /\ WF_timers(TimerDue)

-----------------------------------------------------------------------------
(* The deferred run on its own: every triple that schedules a run, with its *)
(* timer pending and nothing displayed yet, and the callback as the step.   *)

RunPatterns == Patterns \cup {"\\d+"}

RunTexts == SampleTexts \cup {<<"a", "1", "2", "b", "3", "4">>}

RunFlags ==
    {[DefaultFlags EXCEPT !.global = g, !.sticky = y] : g \in BOOLEAN, y \in BOOLEAN}

InitRun ==
    /\ pattern \in RunPatterns
    /\ flags \in RunFlags
    /\ sampleText \in RunTexts
    /\ Schedules(pattern, flags, sampleText)
    /\ matches = <<>>
    /\ executionTime = 0
    /\ isValid = TRUE
    /\ timers = <<[id |-> 1, pattern |-> pattern, flags |-> flags,
                   sampleText |-> sampleText]>>
    /\ timeoutId = 1
    /\ hung = FALSE
    /\ runs = 0
    /\ burst = 1
    /\ fresh = FALSE
    /\ staleWrite = FALSE
    /\ validBefore = TRUE
    /\ threw = FALSE
    /\ cancelled = FALSE
    /\ rendered = Unrendered
    /\ link = NoLink
    /\ clipboard = NoUrl
    /\ unmounted = FALSE
    /\ EditorMounted
    /\ LibraryLoaded(<<>>)

NextRun == TimerFires

SpecRun == InitRun /\ [][NextRun]_vars

-----------------------------------------------------------------------------
(* The renderer on its own: every sample text with every ordered match list *)
(* that satisfies non-overlap and the match invariant, before the render    *)
(* that follows the arrival of the list, and the render as the step.        *)

MatchOfSlice(text, a, b) ==
    [text |-> SubSeq(text, a + 1, b), startIndex |-> a, endIndex |-> b, groups |-> <<>>]

\* the ordered, non-overlapping match lists over text that start at or
\* after position from, with at most n matches
RECURSIVE MatchLists(_, _, _)
MatchLists(text, from, n) ==
    IF n = 0 THEN {<<>>}
    ELSE {<<>>} \cup
         UNION {IF a <= b
                THEN {<<MatchOfSlice(text, a, b)>> \o rest : rest \in MatchLists(text, b, n - 1)}
                ELSE {} :
                a \in from..Len(text), b \in from..Len(text)}

\* the renderer reads neither the pattern nor the flags
InitRender ==
    /\ pattern = "a*"
    /\ flags = DefaultFlags
    /\ sampleText \in SampleTexts
    /\ matches \in MatchLists(sampleText, 0, MaxMatches)
    /\ executionTime = 0
    /\ isValid = TRUE
    /\ timers = <<>>
    /\ timeoutId = 1
    /\ hung = FALSE
    /\ runs = 1
    /\ burst = 0
    /\ fresh = TRUE
    /\ staleWrite = FALSE
    /\ validBefore = TRUE
    /\ threw = FALSE
    /\ cancelled = FALSE
    /\ rendered = Unrendered
    /\ link = NoLink
    /\ clipboard = NoUrl
    /\ unmounted = FALSE
    /\ EditorMounted
    /\ LibraryLoaded(<<>>)

\* the render that follows setMatches: the memo is recomputed
Render ==
    /\ rendered = Unrendered
    /\ rendered' = spans
    /\ UNCHANGED <<pattern, flags, sampleText, matches, executionTime, isValid,
                   timers, timeoutId, hung, runs, burst, fresh, staleWrite,
                   validBefore, threw, cancelled>>
    /\ UNCHANGED <<editorVars, libraryVars, shareVars, lifeVars>>

NextRender == Render

SpecRender == InitRender /\ [][NextRender]_vars

-----------------------------------------------------------------------------
(* RegexEditor: edit history, remembered caret and token insertion. The     *)
(* sample text stays empty here, so every pattern change takes the          *)
(* short-circuit branch of the match effect.                                *)

MaxPatternLen == 3
MaxHistory == 3
MaxRaf == 1

\* the remembered caret is never clamped by the code, so its growth is capped
MaxCaret == 4

\* values the user leaves in the textarea after a keystroke, a deletion or a paste
TypedValues == {"a", "b", "c"}

\* regexElements: the first of the Quick Insert tokens
Tokens == {"."}

\* patterns of library entries offered by "Use Pattern"
LibraryChoices == {"a", "x*"}

\* patterns decoded from the ?pattern= parameter of the URL
SharedPatterns == {"x*"}

Ranges(n) == {Range(s, e) : s \in 0..n, e \in 0..n} \ {Range(s, e) : s \in 1..n, e \in 0..(n - 1)}

\* App.setPattern: the new pattern reaches TestArea, whose effect runs again
AppSetPattern(p) ==
    /\ pattern' = p
    /\ UNCHANGED <<flags, sampleText>>
    /\ IF p # pattern
       THEN Effect(p, flags, sampleText) /\ Record(p, flags, sampleText, TRUE)
       ELSE UNCHANGED <<matches, executionTime, isValid, timers, timeoutId, runs, burst,
                        fresh, validBefore, threw, cancelled, staleWrite, hung>>
    /\ UNCHANGED rendered

\* the textarea is controlled: a render with a different value assigns
\* textarea.value, which puts the caret at the end of the text
SetValue(sel, old, new) == IF new # old THEN Range(Len(new), Len(new)) ELSE sel

\* history.slice(0, historyIndex + 1)
sliceKeepsAll(h, n) == h

\* history.slice(0, historyIndex + 1)
slice(h, n) == SubSeq(h, 1, n)

\* setHistoryIndex(newHistory.length - 1)
LastIndexPlusOne(newHistory) == Len(newHistory)

\* setHistoryIndex(newHistory.length - 1)
LastIndex(newHistory) == Len(newHistory) - 1

\* a plausible slip: the value is recorded also when it is the entry at the cursor
handlePatternChangeAlways(h, i, value) ==
    LET newHistory == Append(slice(h, i + 1), value)
    IN  [history |-> newHistory, historyIndex |-> LastIndex(newHistory)]

\* the history part of handlePatternChange; onPatternChange(value) is AppSetPattern
handlePatternChange(h, i, value) ==
    IF value # h[i + 1]
    THEN LET newHistory == Append(slice(h, i + 1), value)
         IN  [history |-> newHistory, historyIndex |-> LastIndex(newHistory)]
    ELSE [history |-> h, historyIndex |-> i]

handleUndo(h, i, p) ==
    IF i > 0
    THEN [historyIndex |-> i - 1, pattern |-> h[(i - 1) + 1]]
    ELSE [historyIndex |-> i, pattern |-> p]

\* the index moves, the entry is not surfaced
handleRedoStale(h, i, p) ==
    IF i < Len(h) - 1
    THEN [historyIndex |-> i + 1, pattern |-> p]
    ELSE [historyIndex |-> i, pattern |-> p]

handleRedo(h, i, p) ==
    IF i < Len(h) - 1
    THEN [historyIndex |-> i + 1, pattern |-> h[(i + 1) + 1]]
    ELSE [historyIndex |-> i, pattern |-> p]

\* cursorPositionRef.current?.start ?? pattern.length, and the same for end
CaretOrEnd(ref, p) == IF ref = NullRange THEN Range(Len(p), Len(p)) ELSE ref

\* the selected text survives the insertion
InsertValueKeepsSelection(p, start, end, text) ==
    substring(p, 0, start) \o text \o substring(p, start, Len(p))

\* currentValue.substring(0, start) + text + currentValue.substring(end)
InsertValue(p, start, end, text) ==
    substring(p, 0, start) \o text \o substring(p, end, Len(p))

\* const newCursorPos = start + text.length
NewCursorPos(start, text) == start + Len(text)

\* entries that the history part of handlePatternChange cuts off
Dropped(h, i, value) == IF value # h[i + 1] THEN Len(h) - (i + 1) ELSE 0

\* onChange of the textarea: the user leaves value v with the caret at c
Type(v, c) ==
    /\ focused
    /\ v # pattern
    /\ LET r == handlePatternChange(history, historyIndex, v) IN
         /\ Len(r.history) <= MaxHistory
         /\ history' = r.history
         /\ historyIndex' = r.historyIndex
    /\ dropped' = Dropped(history, historyIndex, v)
    /\ AppSetPattern(v)
    /\ selection' = Range(c, c)
    /\ cursorPositionRef' = selection'
    /\ expectCaret' = -1
    /\ UNCHANGED <<focused, rafQueue>>
    /\ UNCHANGED <<libraryVars, shareVars, lifeVars>>

\* onSelect of the textarea: the user moves the caret or selects a range
Select(r) ==
    /\ focused
    /\ r # selection
    /\ selection' = r
    /\ cursorPositionRef' = r
    /\ expectCaret' = -1
    /\ UNCHANGED <<engineVars, history, historyIndex, focused, rafQueue, dropped>>
    /\ UNCHANGED <<libraryVars, shareVars, lifeVars>>

\* onFocus of the textarea, the user tabs into it
UserFocus ==
    /\ ~focused
    /\ focused' = TRUE
    /\ cursorPositionRef' = selection
    /\ expectCaret' = -1
    /\ UNCHANGED <<engineVars, history, historyIndex, selection, rafQueue, dropped>>
    /\ UNCHANGED <<libraryVars, shareVars, lifeVars>>

\* onBlur of the textarea, as when a button is pressed
Blur ==
    /\ focused
    /\ focused' = FALSE
    /\ cursorPositionRef' = selection
    /\ UNCHANGED <<engineVars, history, historyIndex, selection, rafQueue, expectCaret, dropped>>
    /\ UNCHANGED <<libraryVars, shareVars, lifeVars>>

\* onMouseEnter / onMouseDown of a Quick Insert button
CaptureCaret ==
    /\ cursorPositionRef' = selection
    /\ UNCHANGED <<engineVars, history, historyIndex, selection, focused, rafQueue,
                   expectCaret, dropped>>
    /\ UNCHANGED <<libraryVars, shareVars, lifeVars>>

\* onClick of a Quick Insert button: handleInsert(text)
Insert(text) ==
    LET c == CaretOrEnd(cursorPositionRef, pattern)
        newValue == InsertValue(pattern, c.start, c.end, text)
        newCursorPos == NewCursorPos(c.start, text)
        r == handlePatternChange(history, historyIndex, newValue)
    IN  /\ Len(newValue) <= MaxPatternLen
        /\ Len(r.history) <= MaxHistory
        /\ Len(rafQueue) < MaxRaf
        /\ newCursorPos <= MaxCaret
        /\ history' = r.history
        /\ historyIndex' = r.historyIndex
        /\ dropped' = Dropped(history, historyIndex, newValue)
        /\ AppSetPattern(newValue)
        /\ selection' = SetValue(selection, pattern, newValue)
        /\ cursorPositionRef' = Range(newCursorPos, newCursorPos)
        /\ rafQueue' = Append(rafQueue, newCursorPos)
        /\ expectCaret' = c.start + Len(text)
        /\ UNCHANGED focused
        /\ UNCHANGED <<libraryVars, shareVars, lifeVars>>

\* the requestAnimationFrame callback of handleInsert: focus() runs
\* handleTextareaFocus when the textarea was not focused, then setSelectionRange
RafFires ==
    /\ rafQueue # <<>>
    /\ LET newCursorPos == Head(rafQueue) IN
         /\ rafQueue' = Tail(rafQueue)
         /\ focused' = TRUE
         /\ cursorPositionRef' = IF focused THEN cursorPositionRef ELSE selection
         /\ selection' = Range(Clamp(newCursorPos, Len(pattern)),
                               Clamp(newCursorPos, Len(pattern)))
    /\ UNCHANGED <<engineVars, history, historyIndex, expectCaret, dropped>>
    /\ UNCHANGED <<libraryVars, shareVars, lifeVars>>

\* onClick of the Undo button (disabled while historyIndex = 0)
Undo ==
    LET r == handleUndo(history, historyIndex, pattern) IN
        /\ historyIndex' = r.historyIndex
        /\ AppSetPattern(r.pattern)
        /\ selection' = SetValue(selection, pattern, r.pattern)
        /\ expectCaret' = -1
        /\ UNCHANGED <<history, cursorPositionRef, focused, rafQueue, dropped>>
        /\ UNCHANGED <<libraryVars, shareVars, lifeVars>>

\* onClick of the Redo button (disabled at the last index)
Redo ==
    LET r == handleRedo(history, historyIndex, pattern) IN
        /\ historyIndex' = r.historyIndex
        /\ AppSetPattern(r.pattern)
        /\ selection' = SetValue(selection, pattern, r.pattern)
        /\ expectCaret' = -1
        /\ UNCHANGED <<history, cursorPositionRef, focused, rafQueue, dropped>>
        /\ UNCHANGED <<libraryVars, shareVars, lifeVars>>

\* "Use Pattern" of a library entry: App's onSelectPattern calls setPattern
UsePattern(p) ==
    /\ AppSetPattern(p)
    /\ selection' = SetValue(selection, pattern, p)
    /\ expectCaret' = -1
    /\ UNCHANGED <<history, historyIndex, cursorPositionRef, focused, rafQueue, dropped>>
    /\ UNCHANGED <<libraryVars, shareVars, lifeVars>>

\* App's mount effect has run: the pattern is "" or the one shared in the URL
InitEditor ==
    /\ pattern \in {""} \cup SharedPatterns
    /\ flags = DefaultFlags
    /\ sampleText = <<>>
    /\ matches = <<>>
    /\ executionTime = 0
    /\ isValid = TRUE
    /\ timers = <<>>
    /\ timeoutId = 0
    /\ hung = FALSE
    /\ runs = 0
    /\ burst = 0
    /\ fresh = TRUE
    /\ staleWrite = FALSE
    /\ validBefore = TRUE
    /\ threw = FALSE
    /\ cancelled = FALSE
    /\ rendered = Unrendered
    /\ link = NoLink
    /\ clipboard = NoUrl
    /\ unmounted = FALSE
    /\ history = <<"">>
    /\ historyIndex = 0
    /\ cursorPositionRef = NullRange
    /\ selection = Range(Len(pattern), Len(pattern))
    /\ focused = FALSE
    /\ rafQueue = <<>>
    /\ expectCaret = -1
    /\ dropped = 0
    /\ LibraryLoaded(<<>>)

\* the operations on the edit history: typing, token insertion with its
\* deferred refocus, undo, redo and the selection of a library pattern
NextEditor ==
    \/ UserFocus
    \/ \E v \in TypedValues : \E c \in 0..Len(v) : Type(v, c)
    \/ \E t \in Tokens : Insert(t)
    \/ RafFires
    \/ Undo
    \/ Redo
    \/ \E p \in LibraryChoices : UsePattern(p)

SpecEditor == InitEditor /\ [][NextEditor]_vars

\* the operations on the caret: moving it, leaving and entering the
\* textarea, hovering and pressing a Quick Insert button, token insertion
\* with its deferred refocus, on a pattern taken from the library
NextCaret ==
    \/ \E r \in Ranges(Len(pattern)) : Select(r)
    \/ UserFocus
    \/ Blur
    \/ CaptureCaret
    \/ \E t \in Tokens : Insert(t)
    \/ RafFires
    \/ \E p \in LibraryChoices : UsePattern(p)

SpecCaret == InitEditor /\ [][NextCaret]_vars

-----------------------------------------------------------------------------
(* Properties of the match engine *)

\* what the deferred run of the current triple yields
CurRun == RunBody(pattern, flags, sampleText)

IsMatchOf(m, text) ==
    /\ 0 <= m.startIndex
    /\ m.startIndex <= m.endIndex
    /\ m.endIndex <= Len(text)
    /\ m.text = SubSeq(text, m.startIndex + 1, m.endIndex)

\* C1: debounce supersession. After three pattern changes in a row, each
\* scheduling a run and none of their timers having fired in between, at most
\* one run is executed: while none has run, exactly one timer is pending and
\* it holds the third triple; once it has run, no timer is left and the
\* displayed result is the result of the third (the current) triple.
DebounceSupersession ==
    burst = MaxBurst =>
        /\ runs <= 1
        /\ runs = 0 =>
              /\ Len(timers) = 1
              /\ Triple(timers[1].pattern, timers[1].flags, timers[1].sampleText) = Cur
        /\ runs = 1 =>
              /\ timers = <<>>
              /\ fresh
              /\ IF CurRun.outcome = "ok"
                 THEN matches = CurRun.allMatches /\ isValid
                 ELSE matches = <<>> /\ ~isValid

DebounceSupersessionWitness ==
    /\ burst = MaxBurst
    /\ runs = 1
    /\ timers = <<>>
    /\ matches # <<>>
    /\ matches = CurRun.allMatches

\* C2: every result a run writes to the displayed state was computed from the
\* triple that is current at the moment of the write, so a result of an older
\* triple never replaces the result of a newer one.
WritesComeFromCurrentTriple ==
    /\ ~staleWrite
    /\ runs > 0 => fresh

WritesComeFromCurrentTripleWitness ==
    /\ runs = 1
    /\ cancelled
    /\ fresh
    /\ Len(matches) >= 2

\* C3: once the pattern, flags or sample text has changed, the match list on
\* display is not the list computed from the previous triple.
StaleRunsNeverDisplayed ==
    fresh \/ matches = <<>>

\* C4: a superseded triple has no side effects. (1) Whenever the input has
\* settled (no run pending), the valid flag is what it would be had the
\* superseded triples never been entered. (2) At the step that supersedes a
\* pending triple the valid flag still has the value it had before that
\* triple was entered, and entering a triple that schedules a run changes
\* neither the displayed matches nor the elapsed time.
ValidAsIfNeverEntered ==
    IF pattern = "" \/ sampleText = <<>> THEN validBefore
    ELSE IF validateRegex(pattern, flags) # Null THEN FALSE
    ELSE ~threw

SupersededHasNoSideEffects ==
    /\ [](timers = <<>> /\ ~hung => isValid = ValidAsIfNeverEntered)
    /\ [][(timers # <<>> /\ Cur' # Cur) => isValid = validBefore]_vars
    /\ [][(timers' # <<>> /\ Cur' # Cur) =>
             (matches' = matches /\ executionTime' = executionTime)]_vars

\* C5: zero-length-match progress. The global match loop always terminates;
\* after a zero-length match the next match starts at least one position
\* further; a run of x* with the global flag on "abc" shows exactly the four
\* empty matches at positions 0, 1, 2, 3.
EmptyMatchAt(i) ==
    [text |-> <<>>, startIndex |-> i, endIndex |-> i, groups |-> <<>>]

ZeroLengthProgress ==
    /\ ~hung
    /\ \A i \in 1..(Len(matches) - 1) :
          matches[i].startIndex = matches[i].endIndex =>
              matches[i + 1].startIndex >= matches[i].startIndex + 1
    /\ (pattern = "x*" /\ flags.global /\ sampleText = <<"a", "b", "c">>
          /\ fresh /\ runs = 1) =>
            matches = <<EmptyMatchAt(0), EmptyMatchAt(1), EmptyMatchAt(2), EmptyMatchAt(3)>>

ZeroLengthProgressWitness ==
    /\ pattern = "x*"
    /\ flags.global
    /\ sampleText = <<"a", "b", "c">>
    /\ fresh
    /\ runs = 1
    /\ Len(matches) = 4

\* C6: non-overlap. The displayed match list, which is always the list of a
\* run that completed without error, is in order of discovery and each match
\* ends no later than the next one starts.
NonOverlap ==
    \A i \in 1..(Len(matches) - 1) :
        /\ matches[i].endIndex <= matches[i + 1].startIndex
        /\ matches[i].startIndex <= matches[i + 1].startIndex

NonOverlapWitness ==
    \E i \in 1..(Len(matches) - 1) :
        /\ matches[i].startIndex < matches[i].endIndex
        /\ matches[i + 1].startIndex = matches[i + 1].endIndex
        /\ matches[i].endIndex = matches[i + 1].startIndex

\* C7: every displayed match lies inside the sample text on display and its
\* text is the slice of that sample text between its indices.
MatchInvariant ==
    \A i \in 1..Len(matches) : IsMatchOf(matches[i], sampleText)

\* C8: with an empty pattern or an empty sample text the displayed run is
\* empty, has elapsed time 0 and is valid, whatever was entered before.
ShortCircuitRun ==
    (pattern = "" \/ sampleText = <<>>) =>
        /\ matches = <<>>
        /\ executionTime = 0
        /\ isValid
        /\ timers = <<>>

\* C9: when the run of the current triple throws, the displayed state is
\* valid = false with an empty match list; nothing collected before the
\* failure stays on display.
ExecutionErrorCaught ==
    threw => (~isValid /\ matches = <<>>)

ExecutionErrorCaughtWitness ==
    /\ threw
    /\ flags.global
    /\ CurRun.outcome = "threw"
    /\ CurRun.allMatches # <<>>

\* C10: a non-empty pattern that fails validation, with non-empty sample
\* text, leaves an empty match list, valid = false, no pending run and no
\* executed run for that triple.
ValidationFailureIsTerminal ==
    (pattern # "" /\ sampleText # <<>> /\ validateRegex(pattern, flags) # Null) =>
        /\ matches = <<>>
        /\ ~isValid
        /\ timers = <<>>
        /\ runs = 0

ValidationFailureIsTerminalWitness ==
    /\ pattern # ""
    /\ sampleText # <<>>
    /\ validateRegex(pattern, flags) # Null
    /\ cancelled
    /\ executionTime > 0

\* C11: single-match mode. Without the global flag a run shows zero or one
\* match, the result of one search from position 0: the match at the first
\* position where the pattern matches (position 0 only, under the sticky
\* flag), or none when there is no such position; \d+ on "a12b34" shows
\* exactly {text: "12", startIndex: 1, endIndex: 3}.
SingleMatchMode ==
    (runs = 1 /\ fresh /\ ~flags.global /\ ~threw) =>
        /\ Len(matches) <= 1
        /\ Len(matches) = 1 =>
              LET m == matches[1] IN
              /\ IsMatchOf(m, sampleText)
              /\ MatchLenAt(pattern, sampleText, m.startIndex) = m.endIndex - m.startIndex
              /\ \A j \in 0..(m.startIndex - 1) : MatchLenAt(pattern, sampleText, j) < 0
              /\ flags.sticky => m.startIndex = 0
        /\ Len(matches) = 0 =>
              \A j \in 0..(IF flags.sticky THEN 0 ELSE Len(sampleText)) :
                  MatchLenAt(pattern, sampleText, j) < 0
        /\ (pattern = "\\d+" /\ sampleText = <<"a", "1", "2", "b", "3", "4">> /\ ~flags.sticky) =>
              matches = <<[text |-> <<"1", "2">>, startIndex |-> 1, endIndex |-> 3,
                           groups |-> <<>>]>>

SingleMatchModeWitness ==
    /\ runs = 1
    /\ fresh
    /\ ~flags.global
    /\ pattern = "\\d+"
    /\ sampleText = <<"a", "1", "2", "b", "3", "4">>
    /\ Len(matches) = 1
    /\ matches[1].startIndex = 1
    /\ matches[1].endIndex = 3

-----------------------------------------------------------------------------
(* Properties of the highlight renderer *)

RECURSIVE ConcatSpans(_)
ConcatSpans(ss) ==
    IF ss = <<>> THEN <<>> ELSE Head(ss).text \o ConcatSpans(Tail(ss))

\* C12: highlight span reconstruction. For every sample text and every
\* ordered match list that satisfies non-overlap and the match invariant, the
\* texts of the rendered spans, concatenated in order, are the sample text.
SpanReconstruction ==
    (rendered # Unrendered /\ NonOverlap /\ MatchInvariant) =>
        ConcatSpans(rendered) = sampleText

SpanReconstructionWitness ==
    /\ rendered # Unrendered
    /\ Len(matches) >= 2
    /\ Len(rendered) >= 4
    /\ rendered[1].tag = "plain"
    /\ rendered[Len(rendered)].tag = "plain"
    /\ \E i \in 1..Len(matches) : matches[i].startIndex = matches[i].endIndex
    /\ ConcatSpans(rendered) = sampleText

\* C13: the renderer emits no empty span, plain or match, except the single
\* plain span of the case without matches; a zero-length match gives no span.
NoEmptySpans ==
    matches # <<>> =>
        \A i \in 1..Len(spans) : spans[i].text # <<>>

-----------------------------------------------------------------------------
(* Edit history *)

\* C14: after typing, token insertion, undo, redo, the selection of a
\* library pattern and the loading of a shared pattern from the URL, the
\* history entry at the cursor is the pattern currently displayed.
EntryAtCursorIsDisplayed ==
    history[historyIndex + 1] = pattern

\* C15: the history is never empty and the cursor is an index into it,
\* after any sequence of setPattern, insertToken, undo and redo.
CursorInBounds ==
    /\ history # <<>>
    /\ 0 <= historyIndex
    /\ historyIndex < Len(history)

\* the cursor has moved back from the end of a full history
CursorInBoundsWitness ==
    /\ Len(history) = MaxHistory
    /\ historyIndex = 0

\* the history-append path on a step that offers value v: a value that
\* differs from the entry at the cursor replaces everything after the
\* cursor and becomes the last entry, so that redo has nowhere to go;
\* a value equal to the entry at the cursor changes nothing
Recorded(v) ==
    IF v # history[historyIndex + 1]
    THEN /\ history' = SubSeq(history, 1, historyIndex + 1) \o <<v>>
         /\ historyIndex' = Len(history') - 1
         /\ handleRedo(history', historyIndex', pattern').historyIndex = historyIndex'
         /\ handleRedo(history', historyIndex', pattern').pattern = pattern'
    ELSE /\ history' = history
         /\ historyIndex' = historyIndex

\* C16: setPattern(v) with v different from the entry at the cursor removes
\* every entry after the cursor, appends v and moves the cursor to the new
\* last index, so a following redo is a no-op; setPattern(v) with v equal to
\* the entry at the cursor leaves entries and cursor unchanged.
SetPatternTruncates ==
    [][\A v \in TypedValues : \A c \in 0..Len(v) :
          Type(v, c) => (pattern' = v /\ Recorded(v))]_vars

\* setPattern("a"), setPattern("b"), undo(), setPattern("c"): the entry "b"
\* was cut off and "c" is the last entry
SetPatternTruncatesWitness ==
    /\ history = <<"", "a", "c">>
    /\ historyIndex = 2
    /\ dropped = 1
    /\ pattern = "c"

\* C17: undo moves the cursor back by one when it is above 0 and changes
\* nothing at 0; redo moves it forward by one when it is below the last
\* index and changes nothing at the last index; both surface the entry at
\* the new cursor as the pattern and leave the history entries unchanged.
UndoRedoMoveCursor ==
    [][/\ Undo =>
            /\ history' = history
            /\ IF historyIndex > 0
               THEN historyIndex' = historyIndex - 1 /\ pattern' = history[historyIndex' + 1]
               ELSE historyIndex' = historyIndex /\ pattern' = pattern
       /\ Redo =>
            /\ history' = history
            /\ IF historyIndex < Len(history) - 1
               THEN historyIndex' = historyIndex + 1 /\ pattern' = history[historyIndex' + 1]
               ELSE historyIndex' = historyIndex /\ pattern' = pattern]_vars

\* the cursor stands in the middle of a full history, on the displayed entry
UndoRedoMoveCursorWitness ==
    /\ Len(history) = MaxHistory
    /\ historyIndex = 1
    /\ pattern = history[2]
    /\ dropped = 0

-----------------------------------------------------------------------------
(* Token insertion *)

\* p[a:b] with both ends clamped to the text
Slice(p, a, b) ==
    LET lo == Clamp(a, Len(p))
        hi == Clamp(b, Len(p))
    IN  IF lo < hi THEN SubSeq(p, lo + 1, hi) ELSE SubSeq(p, 1, 0)

\* the caret range an insertion reads: the recorded one, or the end of the text
ReadCaret == IF cursorPositionRef = NullRange
             THEN Range(Len(pattern), Len(pattern))
             ELSE cursorPositionRef

\* C18: insertToken(t) produces p[0:start] + t + p[end:] from the current
\* pattern p and the last recorded caret range, or from (len(p), len(p))
\* when none was recorded; the selected text is replaced, and the new
\* pattern goes through the same history-append path as setPattern.
InsertSplices ==
    [][\A t \in Tokens :
          Insert(t) =>
              /\ pattern' = Slice(pattern, 0, ReadCaret.start) \o t
                               \o Slice(pattern, ReadCaret.end, Len(pattern))
              /\ Recorded(pattern')]_vars

\* the selected "x" of the library pattern "x*" was replaced by the token
InsertSplicesWitness ==
    /\ pattern = ".*"
    /\ history = <<"", ".*">>
    /\ historyIndex = 1
    /\ cursorPositionRef = Range(1, 1)
    /\ expectCaret = 1

\* C19: after insertToken(t) the remembered caret is the collapsed range at
\* start + len(t), and an insertion that follows another one, with nothing
\* but hover/press captures, blur and the deferred refocus in between,
\* puts its token right after the token inserted before.
ChainedInsertion ==
    [][\A t \in Tokens :
          Insert(t) =>
              /\ cursorPositionRef' = Range(ReadCaret.start + Len(t), ReadCaret.start + Len(t))
              /\ expectCaret # -1 =>
                    pattern' = Slice(pattern, 0, expectCaret) \o t
                                  \o Slice(pattern, expectCaret, Len(pattern))]_vars

-----------------------------------------------------------------------------
(* PatternLibrary: the Add / Edit dialog, save and delete. The handlers are *)
(* called for every entry of the working set, also for those the list shows *)
(* without Edit and Delete buttons.                                         *)

MaxUserPatterns == 2
MaxNow == 2

\* an entry saved in an earlier session
SavedEntry == Entry("user-0", "old", "x*", "d0", "Old")

\* an entry imported in an earlier session from a file that repeats a shipped one
ImportedEntry == patternsData[1]

\* user sets found in localStorage at startup
StoredLists == {<<>>, <<ImportedEntry, SavedEntry>>}

FormFields == {"name", "pattern", "description", "category"}

\* what the user leaves in an input of the dialog
FieldValues(field) ==
    CASE field = "name" -> {"", "n"}
      [] field = "pattern" -> {"", "a"}
      [] field = "description" -> {"d"}
      [] field = "category" -> {"", "Net"}

\* [...patternsData, ...userPatterns]
allPatterns == patternsData \o userPatterns

Range1(s) == {s[i] : i \in 1..Len(s)}

\* the updater of the edit branch of handleSavePattern
UpdateEntry(prev, editing, form) ==
    [i \in 1..Len(prev) |->
        IF prev[i].id = editing.id
        THEN [prev[i] EXCEPT !.name = form.name,
                             !.pattern = form.pattern,
                             !.description = form.description,
                             !.category = OrElse(form.category, "Custom")]
        ELSE prev[i]]

\* the new entry goes in front
CreateEntryAtFront(prev, form, t) ==
    <<Entry("user-" \o ToString(t), form.name, form.pattern,
            form.description, OrElse(form.category, "Custom"))>> \o prev

\* the updater of the create branch of handleSavePattern
CreateEntry(prev, form, t) ==
    Append(prev, Entry("user-" \o ToString(t), form.name, form.pattern,
                       form.description, OrElse(form.category, "Custom")))

\* the filter runs for every id
handleDeletePatternUnguarded(prev, patternId) ==
    [set |-> TRUE, userPatterns |-> SelectSeq(prev, LAMBDA p : p.id # patternId)]

\* set tells whether setUserPatterns was called
handleDeletePattern(prev, patternId) ==
    IF ~startsWith(patternId, "user-")
    THEN [set |-> FALSE, userPatterns |-> prev]
    ELSE [set |-> TRUE, userPatterns |-> SelectSeq(prev, LAMBDA p : p.id # patternId)]

\* the save effect runs only when the user set has grown
PersistGrowth(set, list) ==
    stored' = IF set /\ Len(list) > Len(userPatterns) THEN JSONstringify(list) ELSE stored

\* the save effect runs after every render that follows setUserPatterns
Persist(set, list) ==
    stored' = IF set THEN JSONstringify(list) ELSE stored

\* the "Add Pattern" trigger of the dialog
OpenAdd ==
    /\ Mounted
    /\ ~isDialogOpen
    /\ isDialogOpen' = TRUE
    /\ editingPattern' = NullEntry
    /\ formData' = EmptyForm
    /\ UNCHANGED <<userPatterns, stored, now>>
    /\ UNCHANGED <<engineVars, editorVars, storeVars, shareVars, lifeVars>>

\* handleEditPattern(p)
EditPattern(p) ==
    /\ Mounted
    /\ ~isDialogOpen
    /\ IF ~startsWith(p.id, "user-")
       THEN UNCHANGED <<isDialogOpen, editingPattern, formData>>
       ELSE /\ editingPattern' = p
            /\ formData' = Form(p.name, p.pattern, p.description, OrElse(p.category, ""))
            /\ isDialogOpen' = TRUE
    /\ UNCHANGED <<userPatterns, stored, now>>
    /\ UNCHANGED <<engineVars, editorVars, storeVars, shareVars, lifeVars>>

\* onChange of an input of the dialog
SetField(field, value) ==
    /\ Mounted
    /\ isDialogOpen
    /\ formData[field] # value
    /\ formData' = [formData EXCEPT ![field] = value]
    /\ UNCHANGED <<userPatterns, stored, isDialogOpen, editingPattern, now>>
    /\ UNCHANGED <<engineVars, editorVars, storeVars, shareVars, lifeVars>>

\* the Cancel button of the dialog
Cancel ==
    /\ Mounted
    /\ isDialogOpen
    /\ isDialogOpen' = FALSE
    /\ UNCHANGED <<userPatterns, stored, editingPattern, formData, now>>
    /\ UNCHANGED <<engineVars, editorVars, storeVars, shareVars, lifeVars>>

\* handleSavePattern, for the entry and the form that the dialog holds
handleSavePattern(editing, form) ==
    /\ IF form.name = "" \/ form.pattern = ""
       THEN UNCHANGED <<userPatterns, stored, isDialogOpen, editingPattern, formData>>
       ELSE /\ IF editing # NullEntry
               THEN userPatterns' = UpdateEntry(userPatterns, editing, form)
               ELSE /\ Len(userPatterns) < MaxUserPatterns
                    /\ userPatterns' = CreateEntry(userPatterns, form, now)
            /\ Persist(TRUE, userPatterns')
            /\ formData' = EmptyForm
            /\ editingPattern' = NullEntry
            /\ isDialogOpen' = FALSE
    /\ UNCHANGED now
    /\ UNCHANGED <<engineVars, editorVars, storeVars, shareVars, lifeVars>>

\* the Save button of the dialog
SavePattern ==
    /\ Mounted
    /\ isDialogOpen
    /\ handleSavePattern(editingPattern, formData)

\* handleDeletePattern(patternId)
DeletePattern(patternId) ==
    /\ Mounted
    /\ ~isDialogOpen
    /\ LET r == handleDeletePattern(userPatterns, patternId) IN
         /\ userPatterns' = r.userPatterns
         /\ Persist(r.set, r.userPatterns)
    /\ UNCHANGED <<isDialogOpen, editingPattern, formData, now>>
    /\ UNCHANGED <<engineVars, editorVars, storeVars, shareVars, lifeVars>>

\* a millisecond passes
Tick ==
    /\ now < MaxNow
    /\ now' = now + 1
    /\ UNCHANGED <<userPatterns, stored, isDialogOpen, editingPattern, formData>>
    /\ UNCHANGED <<engineVars, editorVars, storeVars, shareVars, lifeVars>>

InitLibrary ==
    /\ pattern = ""
    /\ flags = DefaultFlags
    /\ sampleText = <<>>
    /\ matches = <<>>
    /\ executionTime = 0
    /\ isValid = TRUE
    /\ timers = <<>>
    /\ timeoutId = 0
    /\ hung = FALSE
    /\ runs = 0
    /\ burst = 0
    /\ fresh = TRUE
    /\ staleWrite = FALSE
    /\ validBefore = TRUE
    /\ threw = FALSE
    /\ cancelled = FALSE
    /\ rendered = Unrendered
    /\ link = NoLink
    /\ clipboard = NoUrl
    /\ unmounted = FALSE
    /\ EditorMounted
    /\ \E list \in StoredLists : LibraryLoaded(list)

NextLibrary ==
    \/ OpenAdd
    \/ \E p \in Range1(allPatterns) : EditPattern(p)
    \/ \E f \in FormFields : \E v \in FieldValues(f) : SetField(f, v)
    \/ Cancel
    \/ SavePattern
    \/ \E p \in Range1(allPatterns) : DeletePattern(p.id)
    \/ Tick

SpecLibrary == InitLibrary /\ [][NextLibrary]_vars

-----------------------------------------------------------------------------
(* PatternLibrary as a store: create, update, delete, export and import.   *)
(* The dialog is opened, filled and saved in one step; its own steps are   *)
(* those of SpecLibrary.                                                    *)

\* a record of a file that has an id and none of the other fields
PartialRecord == [id |-> "x"]

\* a file cut off in the middle of its first record
TruncatedFile == <<Punct("["), Tok("object", SavedEntry)>>

\* a file that holds one record and no array around it
SingleObjectFile == <<Tok("object", SavedEntry)>>

\* handleExportPatterns: the text of the downloaded file
handleExportPatterns == JSONstringify(userPatterns)

\* files the user picks in the file dialog: two that are no array, one
\* with a record that is no entry, one that repeats a shipped entry and
\* the one exported from the user set <<SavedEntry>>
Files == {TruncatedFile, SingleObjectFile, JSONstringify(<<PartialRecord>>),
          JSONstringify(<<ImportedEntry>>), JSONstringify(<<SavedEntry>>)}

\* what the user types into the dialog before Save
SavedForms == {Form("n", "a", "d", category) : category \in {"", "Net"}}

\* user sets found in localStorage at startup
StoreLists == {<<>>, <<SavedEntry>>}

\* "Add Pattern" (editing = NullEntry) or Edit on an entry of the list, the
\* inputs of the dialog and an accepted Save, with no other event in between
SaveDialog(editing, form) ==
    /\ Mounted
    /\ ~isDialogOpen
    /\ editing # NullEntry => startsWith(editing.id, "user-")
    /\ form.name # "" /\ form.pattern # ""
    /\ handleSavePattern(editing, form)

\* handleImportPatterns: the change event of the file input, which is on
\* screen next to a user set that is not empty; one file is read at a time
ImportPick(file) ==
    /\ Mounted
    /\ ~isDialogOpen
    /\ Len(userPatterns) > 0
    /\ reading = <<>>
    /\ reading' = <<file>>
    /\ alerted' = FALSE
    /\ UNCHANGED <<userPatterns, stored, isDialogOpen, editingPattern, formData, now>>
    /\ UNCHANGED <<mount, queued, searchQuery>>
    /\ UNCHANGED <<engineVars, editorVars, shareVars, lifeVars>>

\* entries that the user set holds already are left out
AppendImportedOnce(prev, imported) ==
    prev \o SelectSeq(imported, LAMBDA p : \A i \in 1..Len(prev) : prev[i] # p)

\* the updater of reader.onload
AppendImported(prev, imported) == prev \o imported

\* reader.onload: the load event of the FileReader
ReaderLoads ==
    /\ Mounted
    /\ reading # <<>>
    /\ LET imported == JSONparse(reading[1]) IN
         /\ alerted' = (imported = SyntaxError)
         /\ IF isArray(imported)
            THEN /\ Len(userPatterns) + Len(imported.items) <= MaxUserPatterns
                 /\ userPatterns' = AppendImported(userPatterns, imported.items)
                 /\ Persist(TRUE, userPatterns')
            ELSE UNCHANGED <<userPatterns, stored>>
    /\ reading' = <<>>
    /\ UNCHANGED <<isDialogOpen, editingPattern, formData, now>>
    /\ UNCHANGED <<mount, queued, searchQuery>>
    /\ UNCHANGED <<engineVars, editorVars, shareVars, lifeVars>>

InitStore ==
    /\ pattern = ""
    /\ flags = DefaultFlags
    /\ sampleText = <<>>
    /\ matches = <<>>
    /\ executionTime = 0
    /\ isValid = TRUE
    /\ timers = <<>>
    /\ timeoutId = 0
    /\ hung = FALSE
    /\ runs = 0
    /\ burst = 0
    /\ fresh = TRUE
    /\ staleWrite = FALSE
    /\ validBefore = TRUE
    /\ threw = FALSE
    /\ cancelled = FALSE
    /\ rendered = Unrendered
    /\ link = NoLink
    /\ clipboard = NoUrl
    /\ unmounted = FALSE
    /\ EditorMounted
    /\ \E list \in StoreLists : LibraryLoaded(list)

NextStore ==
    \/ \E form \in SavedForms : SaveDialog(NullEntry, form)
    \/ \E p \in Range1(allPatterns) : \E form \in SavedForms : SaveDialog(p, form)
    \/ \E p \in Range1(allPatterns) : DeletePattern(p.id)
    \/ \E file \in Files : ImportPick(file)
    \/ ReaderLoads
    \/ Tick

SpecStore == InitStore /\ [][NextStore]_vars

-----------------------------------------------------------------------------
(* PatternLibrary at startup: the first render has shown an empty user set, *)
(* the load effect and the save effect run, and the render that follows    *)
(* shows what the load effect found.                                        *)

\* values found under STORAGE_KEY when the page is opened
StoredValues == {NoValue, TruncatedFile, SingleObjectFile,
                 JSONstringify(<<PartialRecord>>), JSONstringify(<<>>),
                 JSONstringify(<<SavedEntry>>)}

\* the load effect: the value it hands to setUserPatterns
loadEffect(text) ==
    IF text = NoValue THEN NotQueued
    ELSE LET parsed == JSONparse(text) IN
           IF parsed = SyntaxError THEN NotQueued ELSE parsed

\* [...patternsData, ...userPatterns] throws a TypeError on a value that is
\* not iterable
SpreadThrows(v) == ~isArray(v)

\* useEffect(() => {...}, []) of the load
LoadEffect ==
    /\ mount = "effects"
    /\ queued' = loadEffect(stored)
    /\ mount' = "loaded"
    /\ UNCHANGED <<userPatterns, stored, isDialogOpen, editingPattern, formData, now>>
    /\ UNCHANGED <<reading, alerted, searchQuery>>
    /\ UNCHANGED <<engineVars, editorVars, shareVars, lifeVars>>

\* useEffect(() => {...}, [userPatterns]) of the save, after the first render
SaveEffect ==
    /\ mount = "loaded"
    /\ Persist(TRUE, userPatterns)
    /\ mount' = "saved"
    /\ UNCHANGED <<userPatterns, isDialogOpen, editingPattern, formData, now>>
    /\ UNCHANGED <<queued, reading, alerted, searchQuery>>
    /\ UNCHANGED <<engineVars, editorVars, shareVars, lifeVars>>

\* the render of the queued value and the save effect that follows it; an
\* error thrown by the render takes the page down, no error boundary is
\* around the component
Rerender ==
    /\ mount = "saved"
    /\ IF queued = NotQueued
       THEN /\ mount' = "ready"
            /\ UNCHANGED <<userPatterns, stored>>
       ELSE IF SpreadThrows(queued)
       THEN /\ mount' = "crashed"
            /\ UNCHANGED <<userPatterns, stored>>
       ELSE /\ mount' = "ready"
            /\ userPatterns' = queued.items
            /\ Persist(TRUE, userPatterns')
    /\ queued' = NotQueued
    /\ UNCHANGED <<isDialogOpen, editingPattern, formData, now>>
    /\ UNCHANGED <<reading, alerted, searchQuery>>
    /\ UNCHANGED <<engineVars, editorVars, shareVars, lifeVars>>

InitLoad ==
    /\ pattern = ""
    /\ flags = DefaultFlags
    /\ sampleText = <<>>
    /\ matches = <<>>
    /\ executionTime = 0
    /\ isValid = TRUE
    /\ timers = <<>>
    /\ timeoutId = 0
    /\ hung = FALSE
    /\ runs = 0
    /\ burst = 0
    /\ fresh = TRUE
    /\ staleWrite = FALSE
    /\ validBefore = TRUE
    /\ threw = FALSE
    /\ cancelled = FALSE
    /\ rendered = Unrendered
    /\ link = NoLink
    /\ clipboard = NoUrl
    /\ unmounted = FALSE
    /\ EditorMounted
    /\ userPatterns = <<>>
    /\ stored \in StoredValues
    /\ isDialogOpen = FALSE
    /\ editingPattern = NullEntry
    /\ formData = EmptyForm
    /\ now = 1
    /\ mount = "effects"
    /\ queued = NotQueued
    /\ reading = <<>>
    /\ alerted = FALSE
    /\ searchQuery = ""

NextLoad ==
    \/ LoadEffect
    \/ SaveEffect
    \/ Rerender
    \/ NextStore

SpecLoad == InitLoad /\ [][NextLoad]_vars

-----------------------------------------------------------------------------
(* PatternLibrary: the list, filtered by the search query and grouped by    *)
(* category.                                                                *)

\* String.prototype.toLowerCase on one character
LowerChar(c) ==
    CASE c = "A" -> "a" [] c = "C" -> "c" [] c = "D" -> "d" [] c = "E" -> "e"
      [] c = "I" -> "i" [] c = "M" -> "m" [] c = "N" -> "n" [] c = "O" -> "o"
      [] c = "P" -> "p" [] c = "S" -> "s" [] c = "T" -> "t" [] c = "U" -> "u"
      [] c = "V" -> "v" [] c = "Y" -> "y" [] c = "Z" -> "z" [] OTHER -> c

\* the text is compared as it was typed
toLowerCaseKeepsCase(str) == str

\* String.prototype.toLowerCase
RECURSIVE toLowerCase(_)
toLowerCase(str) ==
    IF Len(str) = 0 THEN ""
    ELSE LowerChar(SubSeq(str, 1, 1)) \o toLowerCase(SubSeq(str, 2, Len(str)))

\* String.prototype.includes
includesText(str, q) ==
    \E i \in 0..(Len(str) - Len(q)) : SubSeq(str, i + 1, i + Len(q)) = q

\* the callback of allPatterns.filter
FilterKeeps(p, query) ==
    \/ includesText(toLowerCase(p.name), query)
    \/ includesText(toLowerCase(p.description), query)
    \/ includesText(toLowerCase(p.pattern), query)
    \/ (p.category # "" /\ includesText(toLowerCase(p.category), query))

\* useMemo: filteredPatterns
filteredPatterns ==
    IF searchQuery = "" THEN allPatterns
    ELSE LET query == toLowerCase(searchQuery) IN
           SelectSeq(allPatterns, LAMBDA p : FilterKeeps(p, query))

\* a group of the grouped object: a key and the array under it
Group(category, patterns) == [category |-> category, patterns |-> patterns]

\* property names that every object literal inherits from Object.prototype:
\* grouped[name] is there before anything was stored under it, and it is
\* no array
InheritedKeys == {"constructor", "__proto__", "toString", "valueOf", "hasOwnProperty"}

\* the callback of filteredPatterns.forEach, from entry i on; groups holds
\* the keys of grouped in the order in which they were created
RECURSIVE GroupFrom(_, _, _)
GroupFrom(list, i, groups) ==
    IF i > Len(list) THEN [threw |-> FALSE, groups |-> groups]
    ELSE LET category == OrElse(list[i].category, "Other") IN
           IF category \in InheritedKeys THEN [threw |-> TRUE, groups |-> groups]
           ELSE IF \E g \in 1..Len(groups) : groups[g].category = category
           THEN GroupFrom(list, i + 1,
                    [g \in 1..Len(groups) |->
                        IF groups[g].category = category
                        THEN Group(category, Append(groups[g].patterns, list[i]))
                        ELSE groups[g]])
           ELSE GroupFrom(list, i + 1, Append(groups, Group(category, <<list[i]>>)))

\* useMemo: patternsByCategory
patternsByCategory == GroupFrom(filteredPatterns, 1, <<>>)

\* a property name that is the decimal form of an array index
IsIndexKey(k) == \E n \in 0..9 : ToString(n) = k

IndexOfKey(k) == CHOOSE n \in 0..9 : ToString(n) = k

\* the groups whose keys are array indices, by ascending index
RECURSIVE Ascending(_)
Ascending(groups) ==
    IF Len(groups) = 0 THEN <<>>
    ELSE LET least == CHOOSE g \in 1..Len(groups) :
                         \A h \in 1..Len(groups) :
                            IndexOfKey(groups[g].category) <= IndexOfKey(groups[h].category)
         IN <<groups[least]>> \o
            Ascending(SelectSeq(groups, LAMBDA x : x.category # groups[least].category))

\* Object.entries: the keys that are array indices first, by ascending
\* index, then the other keys in the order in which they were created
ObjectEntries(groups) ==
    Ascending(SelectSeq(groups, LAMBDA x : IsIndexKey(x.category))) \o
    SelectSeq(groups, LAMBDA x : ~IsIndexKey(x.category))

\* the accordion: one item for each entry of Object.entries(patternsByCategory)
accordion == ObjectEntries(patternsByCategory.groups)

\* user entries of the lists: a category, no category, a category that
\* reads as a number and one named like a property of every object
ListEntries ==
    {Entry("user-1", "Zip", "\\d", "US code", "Net"),
     Entry("user-2", "ip", "A*", "a net address", ""),
     Entry("user-3", "Year", "y", "", "2"),
     Entry("user-4", "Ctor", "c", "", "constructor")}

\* user sets of the lists
RECURSIVE ListsUpTo(_)
ListsUpTo(n) ==
    IF n = 0 THEN {<<>>}
    ELSE LET shorter == ListsUpTo(n - 1) IN
           shorter \cup {Append(list, e) : list \in shorter, e \in ListEntries}

\* what the user types into the search box
Queries == {"", "NET", "a", "Zip", "zz", "2"}

\* onChange of the search box
SetSearchQuery(q) ==
    /\ Mounted
    /\ searchQuery # q
    /\ searchQuery' = q
    /\ UNCHANGED <<userPatterns, stored, isDialogOpen, editingPattern, formData, now>>
    /\ UNCHANGED <<mount, queued, reading, alerted>>
    /\ UNCHANGED <<engineVars, editorVars, shareVars, lifeVars>>

InitList ==
    /\ pattern = ""
    /\ flags = DefaultFlags
    /\ sampleText = <<>>
    /\ matches = <<>>
    /\ executionTime = 0
    /\ isValid = TRUE
    /\ timers = <<>>
    /\ timeoutId = 0
    /\ hung = FALSE
    /\ runs = 0
    /\ burst = 0
    /\ fresh = TRUE
    /\ staleWrite = FALSE
    /\ validBefore = TRUE
    /\ threw = FALSE
    /\ cancelled = FALSE
    /\ rendered = Unrendered
    /\ link = NoLink
    /\ clipboard = NoUrl
    /\ unmounted = FALSE
    /\ EditorMounted
    /\ \E list \in ListsUpTo(MaxUserPatterns) : LibraryLoaded(list)

NextList == \E q \in Queries : SetSearchQuery(q)

SpecList == InitList /\ [][NextList]_vars

-----------------------------------------------------------------------------
(* The flag checkboxes and the share button of the export dialog *)

FlagNames == {"global", "ignoreCase", "multiline", "dotAll", "unicode", "sticky"}

\* all values of RegexFlags
FlagSets == [FlagNames -> BOOLEAN]

\* handleShare: the data that goes into the link
Share ==
    /\ link' = ShareData(pattern, flagsToString(flags))
    /\ clipboard' = shareUrl(pattern, flagsToString(flags))
    /\ UNCHANGED <<engineVars, editorVars, libraryVars, lifeVars>>

InitCodec ==
    /\ pattern = ""
    /\ flags = DefaultFlags
    /\ sampleText = <<>>
    /\ matches = <<>>
    /\ executionTime = 0
    /\ isValid = TRUE
    /\ timers = <<>>
    /\ timeoutId = 0
    /\ hung = FALSE
    /\ runs = 0
    /\ burst = 0
    /\ fresh = TRUE
    /\ staleWrite = FALSE
    /\ validBefore = TRUE
    /\ threw = FALSE
    /\ cancelled = FALSE
    /\ rendered = Unrendered
    /\ link = NoLink
    /\ clipboard = NoUrl
    /\ unmounted = FALSE
    /\ EditorMounted
    /\ LibraryLoaded(<<>>)

NextCodec ==
    \/ \E f \in FlagNames : FlagChange(f)
    \/ Share

SpecCodec == InitCodec /\ [][NextCodec]_vars

-----------------------------------------------------------------------------
(* A page opened with the shared address *)

\* the patterns that are shared
SharedTexts == {"", "a", "ab>", "\\d"}

\* the flag checkboxes clicked before sharing: the first, one in the
\* middle and the last two codes of the flags string
SharedFlags == {"global", "ignoreCase", "unicode", "sticky"}

\* the load effect of App: the pattern and the flags that the page shows
\* once the effect has run on useState("") and the default flags
loadShared(query) ==
    LET encodedPattern == urlParamsGet(query)
        text == atob(encodedPattern)
        data == IF text.threw THEN Thrown ELSE JSONparseData(text.value)
        dataPattern == Member(data.value, "pattern")
        dataFlags == Member(data.value, "flags")
    IN  IF encodedPattern = <<>> \/ data.threw
        THEN [pattern |-> "", flags |-> DefaultFlags]
        ELSE [pattern |-> IF dataPattern # "" THEN dataPattern ELSE "",
              flags |-> IF dataFlags # "" THEN parseFlags(Chars(dataFlags))
                        ELSE DefaultFlags]

\* the address of the clipboard is opened: a new page starts, its load
\* effect runs, and TestArea short-circuits on the empty sample text
OpenLink ==
    /\ clipboard # NoUrl
    /\ LET app == loadShared(clipboard) IN
         /\ pattern' = app.pattern
         /\ flags' = app.flags
    /\ sampleText' = <<>>
    /\ matches' = <<>>
    /\ executionTime' = 0
    /\ isValid' = TRUE
    /\ timers' = <<>>
    /\ timeoutId' = 0
    /\ hung' = FALSE
    /\ runs' = 0
    /\ burst' = 0
    /\ fresh' = TRUE
    /\ staleWrite' = FALSE
    /\ validBefore' = TRUE
    /\ threw' = FALSE
    /\ cancelled' = FALSE
    /\ UNCHANGED rendered
    /\ UNCHANGED <<editorVars, libraryVars, shareVars, lifeVars>>

NextShare ==
    \/ \E p \in SharedTexts : SetPattern(p)
    \/ \E f \in SharedFlags : FlagChange(f)
    \/ Share
    \/ OpenLink

SpecShare == InitCodec /\ [][NextShare]_vars

-----------------------------------------------------------------------------
(* Provenance *)

\* the entries that the update of the entry being edited must replace
Replaced(i) == userPatterns[i].id = editingPattern.id

\* a rejected update or delete: the user set and the stored value stay
RejectsForeignIds ==
    /\ \A p \in Range1(allPatterns) :
          (EditPattern(p) /\ ~startsWith(p.id, "user-")) => UNCHANGED libraryVars
    /\ \A p \in Range1(allPatterns) :
          (DeletePattern(p.id) /\ ~startsWith(p.id, "user-")) =>
              UNCHANGED <<userPatterns, stored>>
    /\ (SavePattern /\ editingPattern # NullEntry) => startsWith(editingPattern.id, "user-")

-----------------------------------------------------------------------------
(* Create *)

\* C21: create with an empty name or an empty pattern changes nothing;
\* otherwise it appends exactly one entry at the end of the user set, with
\* an id that carries the user marker, the given name, pattern and
\* description, and the category "Custom" when the given category is empty
\* (the given category otherwise), and leaves every existing entry
\* unchanged.
CreateAppendsOne ==
    [][(SavePattern /\ editingPattern = NullEntry) =>
          IF formData.name = "" \/ formData.pattern = ""
          THEN UNCHANGED libraryVars
          ELSE /\ Len(userPatterns') = Len(userPatterns) + 1
               /\ LET created == userPatterns'[Len(userPatterns')] IN
                    /\ startsWith(created.id, "user-")
                    /\ created.name = formData.name
                    /\ created.pattern = formData.pattern
                    /\ created.description = formData.description
                    /\ created.category = IF formData.category = "" THEN "Custom"
                                          ELSE formData.category
               /\ \A i \in 1..Len(userPatterns) :
                     userPatterns'[i] = userPatterns[i]]_vars

\* two entries were created one after the other, the second one with an
\* empty category, behind the first
CreateAppendsOneWitness ==
    /\ Len(userPatterns) = 2
    /\ userPatterns[1] = Entry("user-1", "n", "a", "d", "Net")
    /\ userPatterns[2] = Entry("user-2", "n", "a", "", "Custom")
    /\ stored = JSONstringify(userPatterns)
    /\ ~isDialogOpen

-----------------------------------------------------------------------------
(* Ids, import and persistence *)

\* C22: ids are unique: after any sequence of create, update, delete and
\* import operations no two entries of the working set (built-in and user
\* entries together) have the same id; in particular two creates always
\* receive different ids.
IdsUnique ==
    \A i, j \in 1..Len(allPatterns) :
        i # j => allPatterns[i].id # allPatterns[j].id

\* a record with the fields of a RegexPattern, flags and category being
\* optional
EntryShaped(r) ==
    /\ {"id", "name", "pattern", "description"} \subseteq DOMAIN r
    /\ DOMAIN r \subseteq {"id", "name", "pattern", "description", "flags", "category"}

\* the text parses to a sequence of PatternEntry-shaped records
WellFormed(text) ==
    LET parsed == JSONparse(text) IN
      /\ isArray(parsed)
      /\ \A i \in 1..Len(parsed.items) : EntryShaped(parsed.items[i])

\* C23: importing a malformed payload (text that does not parse, a parsed
\* value that is not a sequence, or a sequence containing a record that is
\* not PatternEntry-shaped) leaves the user set and the persisted value
\* unchanged.
ImportRejectsMalformed ==
    [][(ReaderLoads /\ ~WellFormed(reading[1])) =>
          UNCHANGED <<userPatterns, stored>>]_vars

\* C24: every import that is rejected because the file is not a well-formed
\* pattern sequence produces a user-visible error message, including a
\* payload that parses but is not a sequence.
RejectedImportAlerts ==
    [][(ReaderLoads /\ ~WellFormed(reading[1]) /\ UNCHANGED userPatterns) =>
          alerted']_vars

\* C25: importing a well-formed list L makes the user set equal to the
\* previous user set followed by L in order, with no entry removed or
\* merged even when an imported entry equals an existing user entry or a
\* built-in; importing the output of the export doubles the user set.
ImportAppends ==
    [][(ReaderLoads /\ WellFormed(reading[1])) =>
          /\ userPatterns' = userPatterns \o JSONparse(reading[1]).items
          /\ reading[1] = handleExportPatterns =>
                 userPatterns' = userPatterns \o userPatterns]_vars

\* the exported user set <<SavedEntry>> was imported into itself
ImportAppendsWitness ==
    /\ userPatterns = <<SavedEntry, SavedEntry>>
    /\ reading = <<>>
    /\ ~alerted

\* C26: after every create, update, delete and import that changes the user
\* set, the value stored under the storage key is the serialization of the
\* new user set, and loading that value yields the same user set.
PersistedAfterMutation ==
    [][userPatterns' # userPatterns =>
          /\ stored' = JSONstringify(userPatterns')
          /\ loadEffect(stored') = Value("array", userPatterns')]_vars

\* an entry was created and a copy of a shipped entry imported behind it
PersistedAfterMutationWitness ==
    /\ userPatterns = <<Entry("user-1", "n", "a", "d", "Custom"), ImportedEntry>>
    /\ stored = JSONstringify(userPatterns)
    /\ loadEffect(stored) = Value("array", userPatterns)

-----------------------------------------------------------------------------
(* Startup *)

\* the queued value is a sequence of PatternEntry-shaped records
WellFormedValue(v) ==
    /\ isArray(v)
    /\ \A i \in 1..Len(v.items) : EntryShaped(v.items[i])

\* C27: on load, a missing stored value and every corrupt stored value
\* (unparseable text, or text that parses to something that is not a
\* sequence of pattern entries) yield an empty user set, and the library
\* stays usable.
LoadSurvivesCorruptValue ==
    [][Rerender =>
          /\ mount' = "ready"
          /\ ~WellFormedValue(queued) => userPatterns' = <<>>]_vars

-----------------------------------------------------------------------------
(* The list *)

\* two characters that differ at most in their case
CasePairs ==
    {<<"a", "A">>, <<"c", "C">>, <<"d", "D">>, <<"e", "E">>, <<"i", "I">>,
     <<"m", "M">>, <<"n", "N">>, <<"o", "O">>, <<"p", "P">>, <<"s", "S">>,
     <<"t", "T">>, <<"u", "U">>, <<"v", "V">>, <<"y", "Y">>, <<"z", "Z">>}

SameLetter(a, b) == a = b \/ <<a, b>> \in CasePairs \/ <<b, a>> \in CasePairs

\* q occurs in str when case is ignored
ContainsIgnoringCase(str, q) ==
    \E i \in 0..(Len(str) - Len(q)) :
        \A k \in 1..Len(q) :
            SameLetter(SubSeq(str, i + k, i + k), SubSeq(q, k, k))

\* the positions of the working set that the query keeps
Kept ==
    {i \in 1..Len(allPatterns) :
        \/ searchQuery = ""
        \/ ContainsIgnoringCase(allPatterns[i].name, searchQuery)
        \/ ContainsIgnoringCase(allPatterns[i].description, searchQuery)
        \/ ContainsIgnoringCase(allPatterns[i].pattern, searchQuery)
        \/ ContainsIgnoringCase(allPatterns[i].category, searchQuery)}

\* the k-th position of a set of positions
Nth(positions, k) ==
    CHOOSE i \in positions : Cardinality({j \in positions : j < i}) = k - 1

\* C28: the list works on the built-in entries followed by the user
\* entries; with an empty query it keeps all of them, otherwise it keeps
\* exactly the entries whose name, description, pattern text or category
\* contains the query as a substring, compared case-insensitively, and it
\* keeps their relative order.
ListKeepsMatching ==
    /\ allPatterns = patternsData \o userPatterns
    /\ Len(filteredPatterns) = Cardinality(Kept)
    /\ \A k \in 1..Len(filteredPatterns) :
          filteredPatterns[k] = allPatterns[Nth(Kept, k)]

\* the query "NET" keeps the entry of category "Net" and the entry whose
\* description holds "net", in this order, and drops the shipped entry
ListKeepsMatchingWitness ==
    /\ searchQuery = "NET"
    /\ Len(userPatterns) = 2
    /\ userPatterns[1].category = "Net"
    /\ userPatterns[2].description = "a net address"
    /\ filteredPatterns = userPatterns

\* the category under which an entry is listed
CategoryOf(p) == IF p.category = "" THEN "Other" ELSE p.category

\* the position at which a category is first seen in the filtered result
FirstSeen(category) ==
    CHOOSE i \in 1..Len(filteredPatterns) :
        /\ CategoryOf(filteredPatterns[i]) = category
        /\ \A j \in 1..(i - 1) : CategoryOf(filteredPatterns[j]) # category

\* C29: grouping puts every filtered entry in exactly one group, the group
\* of its category or "Other" when it has none, keeps the entries' order
\* within a group, and lists the groups in the order in which each category
\* is first seen in the filtered result, for every category name.
GroupsInFirstSeenOrder ==
    /\ ~patternsByCategory.threw
    /\ \A g \in 1..Len(accordion) :
          accordion[g].patterns =
              SelectSeq(filteredPatterns,
                        LAMBDA p : CategoryOf(p) = accordion[g].category)
    /\ \A i \in 1..Len(filteredPatterns) :
          Cardinality({g \in 1..Len(accordion) :
                          accordion[g].category = CategoryOf(filteredPatterns[i])}) = 1
    /\ \A g, h \in 1..Len(accordion) :
          g < h => FirstSeen(accordion[g].category) < FirstSeen(accordion[h].category)

-----------------------------------------------------------------------------
(* Flag codec *)

\* the codes in their canonical order, each with its flag
Codes ==
    <<[code |-> "g", flag |-> "global"], [code |-> "i", flag |-> "ignoreCase"],
      [code |-> "m", flag |-> "multiline"], [code |-> "s", flag |-> "dotAll"],
      [code |-> "u", flag |-> "unicode"], [code |-> "y", flag |-> "sticky"]>>

\* the codes of the flags that are set, in canonical order
CodesOf(f) ==
    LET chosen == SelectSeq(Codes, LAMBDA c : f[c.flag]) IN
      [i \in 1..Len(chosen) |-> chosen[i].code]

\* C30: for all 64 flag sets f, decode(encode(f)) = f, where encode emits
\* the codes g, i, m, s, u, y in that order, one per set flag; checked for
\* every flag set, and for the flags string of every link that is shared.
FlagCodecRoundTrip ==
    [][/\ \A f \in FlagSets :
             /\ flagsToString(f) = CodesOf(f)
             /\ parseFlags(flagsToString(f)) = f
       /\ Share => /\ link'.flags = CodesOf(flags)
                   /\ parseFlags(link'.flags) = flags]_vars

\* a link was shared with the flags i and y set and no other
FlagCodecRoundTripWitness ==
    /\ link # NoLink
    /\ link.flags = <<"i", "y">>
    /\ flags = parseFlags(link.flags)
    /\ ~flags.global

-----------------------------------------------------------------------------
(* Share link *)

\* C31: for every pattern and every flag set, decoding on load the link
\* generated from (pattern, flags) leaves the application with the same
\* pattern and the same flag set, also when no flag is set: after a page
\* was opened with the link, its pattern is the shared pattern and the
\* codes of its flags are the shared flags string.
ShareLinkRoundTrip ==
    [][OpenLink => /\ pattern' = link.pattern
                   /\ CodesOf(flags') = link.flags]_vars

-----------------------------------------------------------------------------
(* The pending run *)

\* the triple a pending timer was scheduled for
TripleOf(t) == Triple(t.pattern, t.flags, t.sampleText)

\* C32: single-slot pending register. In every reachable state at most one
\* scheduled run that has not fired exists, and it was scheduled for the
\* current triple; a step that changes the input or unmounts leaves no timer
\* that was pending before it: entering an empty or invalid input and
\* unmounting leave none at all, scheduling leaves exactly the new one.
SingleSlotRegister ==
    /\ [](/\ Len(timers) <= 1
          /\ timers # <<>> => TripleOf(timers[1]) = Cur /\ timers[1].id = timeoutId
          /\ unmounted => timers = <<>>)
    /\ [][/\ Cur' # Cur =>
               /\ \A i \in 1..Len(timers') : TripleOf(timers'[i]) # Cur
               /\ Len(timers') = (IF Schedules(pattern', flags', sampleText') THEN 1 ELSE 0)
          /\ Unmount => timers' = <<>>]_vars

\* a run was pending, a new input discarded it and scheduled its own run
SingleSlotRegisterWitness ==
    /\ cancelled
    /\ Len(timers) = 1
    /\ TripleOf(timers[1]) = Cur
    /\ runs = 0
    /\ ~unmounted

\* C33: the valid flag tracks the current pattern. In every reachable state
\* in which the current pattern is not empty and compiles under the current
\* flags and no run of the current triple has thrown, isValid is true, so
\* the message "Invalid regex pattern" is not on display.
ValidTracksPattern ==
    (/\ pattern # ""
     /\ Compiles(pattern, flagsToString(flags))
     /\ ~threw) => isValid

\* the run of the current triple has fired and its result is on display
ResultDisplayed ==
    /\ timers = <<>>
    /\ fresh
    /\ matches = (IF CurRun.outcome = "ok" THEN CurRun.allMatches ELSE <<>>)

\* C34: eventual result. If the pattern is not empty and compiles, the
\* sample text is not empty and the input changes no more, then the
\* scheduled run fires and the displayed match list becomes, and stays, the
\* result of running the current triple: either the input changes again and
\* again, or from some point on every triple that schedules a run has its
\* result on display.
EventualResult ==
    ([]<><<Cur' # Cur>>_vars) \/ <>[](Schedules(pattern, flags, sampleText) => ResultDisplayed)

\* the input was changed while a run was pending, the last run has fired
\* and the two matches of the current triple are on display
EventualResultWitness ==
    /\ Schedules(pattern, flags, sampleText)
    /\ ResultDisplayed
    /\ cancelled
    /\ runs = 1
    /\ Len(matches) = 2

-----------------------------------------------------------------------------
(* The caret that handleInsert uses *)

\* C35: whenever a token is inserted, the caret range the insertion uses
\* satisfies 0 <= start <= end <= length of the current pattern, and the
\* caret remembered afterwards is at most the length of the new pattern,
\* also after undo, redo or the selection of a library pattern.
InsertCaretInRange ==
    [][\A t \in Tokens :
          Insert(t) =>
              /\ 0 <= ReadCaret.start
              /\ ReadCaret.start <= ReadCaret.end
              /\ ReadCaret.end <= Len(pattern)
              /\ cursorPositionRef'.start <= Len(pattern')
              /\ cursorPositionRef'.end <= Len(pattern')]_vars

-----------------------------------------------------------------------------
(* The edit history *)

\* C36: the edit history never holds two equal entries next to each other:
\* for every reachable history and every i, entries[i] # entries[i + 1].
NoEqualNeighbours ==
    \A i \in 1..(Len(history) - 1) : history[i] # history[i + 1]

\* after an undo a new value was recorded in place of the entry cut off
NoEqualNeighboursWitness ==
    /\ Len(history) = 3
    /\ historyIndex = 2
    /\ dropped = 1
    /\ pattern = history[3]

-----------------------------------------------------------------------------
(* The user set over its whole life *)

\* C37: every entry of the user set carries the marker "user-" at the start
\* of its id, after any sequence of create, update, delete, import and
\* load, so that the store edits and deletes every entry of the user set.
UserSetMarked ==
    \A i \in 1..Len(userPatterns) : startsWith(userPatterns[i].id, "user-")

\* the list without its k-th entry
WithoutAt(list, k) == SubSeq(list, 1, k - 1) \o SubSeq(list, k + 1, Len(list))

\* the positions of the user set that hold an entry with the id of p
PositionsOf(p) == {k \in 1..Len(userPatterns) : userPatterns[k].id = p.id}

\* C38: delete of a user entry removes exactly that one entry, so the
\* length drops by exactly 1 and the other entries keep their order; update
\* of a user entry changes exactly that one entry, which keeps its id and
\* its position, and leaves the length and every other entry as they were.
DeleteUpdateTouchOne ==
    [][\A p \in Range1(userPatterns) :
          startsWith(p.id, "user-") =>
              /\ DeletePattern(p.id) =>
                    /\ Len(userPatterns') = Len(userPatterns) - 1
                    /\ \E k \in PositionsOf(p) : userPatterns' = WithoutAt(userPatterns, k)
              /\ \A form \in SavedForms :
                    SaveDialog(p, form) =>
                       /\ Len(userPatterns') = Len(userPatterns)
                       /\ \E k \in PositionsOf(p) :
                             /\ userPatterns'[k].id = p.id
                             /\ \A j \in 1..Len(userPatterns) :
                                   j # k => userPatterns'[j] = userPatterns[j]]_vars

-----------------------------------------------------------------------------
(* Startup *)

\* the value that was under the storage key when startup began, parsed:
\* the save effect has not written before mount = "saved", and from then
\* on the value is the one that the load effect queued
StoredAtStartup == IF mount = "saved" THEN queued ELSE JSONparse(stored)

\* C39: startup does not lose stored data. While startup is under way, no
\* step replaces the value under the storage key by one that deserializes
\* to another user set than the one stored before startup, in particular
\* not by the empty set while entries are stored.
StartupKeepsStored ==
    [][(mount \in {"effects", "loaded", "saved"} /\ isArray(StoredAtStartup)) =>
          JSONparse(stored') = StoredAtStartup]_vars

-----------------------------------------------------------------------------
(* Availability of import *)

\* C40: import is available in every state of the library, also when the
\* user set is empty: whenever the library is on screen, no dialog is open
\* and no file is being read, a file can be picked for import.
ImportAlwaysAvailable ==
    (Mounted /\ ~isDialogOpen /\ reading = <<>>) =>
        ENABLED (\E file \in Files : ImportPick(file))

====
